---- MODULE Spec2Model ----
(***************************************************************************)
(* Model of the claude-draws backend orchestration:                        *)
(*   - CheckSubmissionsWorkflow (backend/workflows/check_submissions.py)   *)
(*   - CreateArtworkWorkflow    (backend/workflows/create_artwork.py)      *)
(*   - the activities they call (backend/workflows/activities.py)          *)
(*   - the CLI launcher         (backend/claudedraw/cli.py)                *)
(* The D1 submissions table, the OBS recorder/streamer and the Temporal    *)
(* engine's retry of activity attempts and child runs are the environment. *)
(***************************************************************************)
EXTENDS Integers, Sequences, FiniteSets, TLC

\* ---------------------------------------------------------------- bounds
NumSubs == 2            \* submission ids 1..NumSubs
MaxUpvotes == 1         \* upvote_count drawn from 0..MaxUpvotes
MaxRuns == 5            \* runs of one CheckSubmissionsWorkflow chain
MaxFaults == 4          \* injected attempt failures, concurrent specification
MaxRunAttempts == 3     \* tracked attempts of an unboundedly retried workflow
NumWorkerRuns == 6      \* workflow runs issuing activity tasks to one worker
MaxBackoffAttempts == 8 \* tracked attempts of a run whose retry delays are followed

\* ------------------------------------------------------ program constants
CountdownSeconds == 60          \* range(60, 0, -1)
ChkMaxAttempts == 3             \* RetryPolicy(maximum_attempts=3) of every activity of CheckSubmissionsWorkflow
ChildMaxAttempts == 3           \* maximum_attempts=0 if continuous else 3
InfiniteAttempts == 0           \* maximum_attempts=0: retry forever

SubIds == 1..NumSubs
NoSub == 0                      \* Python None for a submission / submission id
Checkers == {1, 2}              \* CheckSubmissionsWorkflow chains on the queue
CliRun == 0                     \* the CreateArtworkWorkflow run started by the CLI
ArtIds == {CliRun} \cup Checkers \* child of checker c is run c
CdpUrls == {"ws://a", "ws://b"}

VARIABLES
    d1,            \* submissions table: id -> [status, upvote_count, created_at, email]
    created,       \* number of rows inserted so far (orders created_at)
    obsRecording,  \* OBS recorder output active
    chk,           \* current run of each CheckSubmissionsWorkflow chain
    chain,         \* per chain: what its runs did so far (observation only)
    art,           \* current run of each CreateArtworkWorkflow
    claimedBy,     \* per submission: runs whose update_submission_status(id, "processing") succeeded
    faultsLeft,    \* attempt failures the environment may still inject
    session,       \* the attempt of browser_session_activity in progress, with its clock
    detached,      \* a parent run and the background child it started
    slots,         \* activity tasks of the worker: queued or executing
    backoff,       \* delays the engine slept before the retries of a workflow
    replay,        \* two executions of one workflow run over the same history
    pa,            \* a ProcessArtworkWorkflow run on the worker of worker/main.py
    loop,          \* the completion-polling loop of browser_session_activity, with its clock
    obs,           \* an OBSWebSocketClient, its socket and its callers
    rec,           \* an OBSWebSocketClient's recording calls, and the recorder of OBS
    inact,         \* an invocation of check_inactivity_and_stop_streaming, its tables and OBS
    gallery,       \* gallery-metadata.json on the worker's disk, and the invocations that wrote it
    browser        \* one attempt of browser_session_activity, wait by wait

vars == <<d1, created, obsRecording, chk, chain, art, claimedBy, faultsLeft,
          session, detached, slots, backoff, replay, pa, loop, obs, rec, inact, gallery, browser>>

\* the state outside the submission pipeline
sideVars == <<session, detached, slots, backoff>>

\* the submission pipeline and its environment
pipelineVars == <<d1, created, obsRecording, chk, chain, art, claimedBy, faultsLeft>>

\* the state of the components followed on their own
auxVars == <<replay, pa, loop, obs, rec, inact, gallery, browser>>

\* ------------------------------------------------------------ D1 queries
NoRow == [status |-> "absent", upvote_count |-> 0, created_at |-> 0, email |-> FALSE]

Pending(t) == {s \in SubIds : t[s].status = "pending"}

\* ORDER BY upvote_count DESC, created_at ASC
OrderedBefore(t, a, b) ==
    \/ t[a].upvote_count > t[b].upvote_count
    \/ t[a].upvote_count = t[b].upvote_count /\ t[a].created_at < t[b].created_at

\* SELECT ... WHERE status = 'pending' ORDER BY ... LIMIT 1; None when no row
check_for_pending_submissions(t) ==
    IF Pending(t) = {} THEN NoSub
    ELSE CHOOSE s \in Pending(t) : \A o \in Pending(t) \ {s} : OrderedBefore(t, s, o)

\* mutant: "the oldest pending submission" of the docstring, ORDER BY created_at ASC
get_next_submission_oldest(t) ==
    LET results == {s \in SubIds : t[s].status = "pending"} IN
    IF results = {} THEN NoSub
    ELSE CHOOSE s \in results : \A o \in results \ {s} : t[s].created_at < t[o].created_at

get_next_submission(t) ==
    LET results == {s \in SubIds : t[s].status = "pending"} IN
    IF results = {} THEN NoSub
    ELSE CHOOSE s \in results : \A o \in results \ {s} : OrderedBefore(t, s, o)

\* SELECT ... WHERE id = ? AND status IN ('pending', 'processing') LIMIT 1
FetchSpecific(t, id) ==
    IF id \in SubIds /\ t[id].status \in {"pending", "processing"} THEN id ELSE NoSub

\* UPDATE submissions SET status = ? WHERE id = ?   (no condition on the old status)
update_submission_status(t, id, status) ==
    IF id \in SubIds /\ t[id].status # "absent"
    THEN [t EXCEPT ![id].status = status]
    ELSE t

\* ------------------------------------------------------------ run records
FreshCheckRun(cdp_url, continuous) ==
    [status |-> "running", pc |-> "switch_main",
     cdp_url |-> cdp_url, continuous |-> continuous,
     submission |-> NoSub, seconds_remaining |-> 0, streaming_stopped |-> FALSE,
     history |-> 0, attempt |-> 1, result |-> "none"]

IdleCheckRun ==
    [FreshCheckRun("ws://a", FALSE) EXCEPT !.status = "idle", !.pc = "idle"]

FreshChain ==
    [runs |-> 1, checkLog |-> <<>>, cycles |-> 0, dispatched |-> <<>>, outcomes |-> <<>>,
     last_history |-> 0]

NoArtRun ==
    [status |-> "none", pc |-> "none", cdp_url |-> "ws://a", continuous |-> FALSE,
     submission_id |-> NoSub, max_attempts |-> 1, run_attempt |-> 1, attempt |-> 1,
     trace |-> <<>>, claimed |-> NoSub,
     browser_sub |-> NoSub, browser_email |-> FALSE, browser_done |-> FALSE,
     video_path |-> FALSE, compressed_video_path |-> FALSE, video_url |-> FALSE,
     failedOptional |-> {}, failedAt |-> "none", inserted |-> "none",
     email_outcome |-> "none", image_url |-> FALSE,
     cancel_requested |-> FALSE,
     last_attempt |-> [raised |-> "none", propagated |-> "none", tab_created |-> FALSE,
                       close_attempted |-> FALSE, close_failed |-> FALSE]]

\* CreateArtworkWorkflow.run entry: first suspension point
FreshArtRun(cdp_url, continuous, submission_id, max_attempts, run_attempt) ==
    [NoArtRun EXCEPT !.status = "running",
        !.pc = IF submission_id # NoSub THEN "update_processing" ELSE "start_obs_recording",
        !.cdp_url = cdp_url, !.continuous = continuous, !.submission_id = submission_id,
        !.max_attempts = max_attempts, !.run_attempt = run_attempt]


\* the environment makes one activity attempt fail (error or timeout)
NoLimit == 0 - 1
Fault ==
    \/ faultsLeft = NoLimit /\ UNCHANGED faultsLeft
    \/ faultsLeft > 0 /\ faultsLeft' = faultsLeft - 1

\* ------------------------------------------- CheckSubmissionsWorkflow.run
\* one history event per activity invocation, timer or child (not per attempt)
Recorded(run) == IF run.attempt = 1 THEN run.history + 1 ELSE run.history

ChkAdvance(run, nextpc) ==
    [run EXCEPT !.pc = nextpc, !.attempt = 1, !.history = Recorded(run)]

\* mutant: the successor run keeps the predecessor's event history
ContinuedRunKeepsHistory(run) ==
    [FreshCheckRun(run.cdp_url, run.continuous) EXCEPT !.history = run.history]

\* mutant: loop-local values leak into the successor run
ContinuedRunCarriesLocals(run) ==
    [FreshCheckRun(run.cdp_url, run.continuous)
        EXCEPT !.submission = run.submission, !.streaming_stopped = run.streaming_stopped]

\* workflow.continue_as_new(args=[cdp_url, continuous])
ContinuedRun(run) == FreshCheckRun(run.cdp_url, run.continuous)

\* mutant: the submission-found branch falls through to its return
FoundBranchReturns(run) == run.continuous /\ run.submission = NoSub

\* mutant: the no-submission branch returns the empty dict in continuous mode too
IdleBranchReturns(run) == run.continuous /\ run.submission # NoSub

\* "if continuous: workflow.continue_as_new(...)" ends the run before the return
EndsByContinueAsNew(run) == run.continuous

ChainEnds(c, outcome) ==
    [chain EXCEPT ![c].outcomes = Append(@, outcome)]

\* end of a run after its last suspension point: continue-as-new or return
EndCheckRun(c, run, ch) ==
    IF EndsByContinueAsNew(run)
    THEN /\ ch[c].runs < MaxRuns
         /\ chk' = [chk EXCEPT ![c] = ContinuedRun(run)]
         /\ chain' = [ch EXCEPT ![c].outcomes = Append(@, "continued_as_new"),
                                ![c].runs = @ + 1,
                                ![c].last_history = run.history]
    ELSE /\ chk' = [chk EXCEPT ![c] = [run EXCEPT !.status = "completed", !.pc = "done",
                                                  !.result = "dict"]]
         /\ chain' = [ch EXCEPT ![c].outcomes = Append(@, "completed")]

\* an attempt of the activity in flight fails: retried up to maximum_attempts=3,
\* then the ActivityError is raised in the workflow, which does not catch it
ChkAttemptFails(c) ==
    /\ Fault
    /\ IF chk[c].attempt < ChkMaxAttempts
       THEN /\ chk' = [chk EXCEPT ![c].attempt = @ + 1, ![c].history = Recorded(chk[c])]
            /\ UNCHANGED chain
       ELSE /\ chk' = [chk EXCEPT ![c].status = "failed", ![c].history = Recorded(chk[c])]
            /\ chain' = ChainEnds(c, "failed")

ChkAt(c, pc) == chk[c].status = "running" /\ chk[c].pc = pc

\* an activity whose result the workflow ignores
ChkPlainActivity(c, pc, nextpc) ==
    /\ ChkAt(c, pc)
    /\ \/ /\ chk' = [chk EXCEPT ![c] = ChkAdvance(chk[c], nextpc)]
          /\ UNCHANGED <<chain, faultsLeft>>
       \/ ChkAttemptFails(c)

SwitchToMainScene(c) ==
    /\ ChkPlainActivity(c, "switch_main", "ensure_streaming")
    /\ UNCHANGED <<d1, created, obsRecording, art, claimedBy, sideVars, auxVars>>

EnsureObsStreaming(c) ==
    /\ ChkPlainActivity(c, "ensure_streaming", "visit_gallery")
    /\ UNCHANGED <<d1, created, obsRecording, art, claimedBy, sideVars, auxVars>>

VisitGallery(c) ==
    /\ ChkPlainActivity(c, "visit_gallery", "check")
    /\ UNCHANGED <<d1, created, obsRecording, art, claimedBy, sideVars, auxVars>>

\* check_for_pending_submissions, then the branch up to the next suspension point
CheckForPending(c) ==
    /\ ChkAt(c, "check")
    /\ \/ LET submission == check_for_pending_submissions(d1)
              run == [ChkAdvance(chk[c], "await_child") EXCEPT !.submission = submission]
              ch == [chain EXCEPT ![c].checkLog = Append(@, submission)]
          IN  /\ IF submission # NoSub
                 THEN \* execute_child_workflow("CreateArtworkWorkflow", [cdp_url, False, id])
                      /\ chk' = [chk EXCEPT ![c] = [run EXCEPT !.history = @ + 1]]
                      /\ chain' = [ch EXCEPT ![c].dispatched = Append(@, submission)]
                      /\ art' = [art EXCEPT ![c] =
                                   FreshArtRun(run.cdp_url, FALSE, submission,
                                               IF run.continuous THEN InfiniteAttempts
                                                                 ELSE ChildMaxAttempts, 1)]
                 ELSE IF run.continuous
                 THEN /\ chk' = [chk EXCEPT ![c] = [run EXCEPT !.pc = "switch_screensaver"]]
                      /\ chain' = ch
                      /\ UNCHANGED art
                 ELSE /\ chk' = [chk EXCEPT ![c] = [run EXCEPT !.status = "completed",
                                                               !.pc = "done", !.result = "dict"]]
                      /\ chain' = [ch EXCEPT ![c].outcomes = Append(@, "completed")]
                      /\ UNCHANGED art
              /\ UNCHANGED faultsLeft
       \/ ChkAttemptFails(c) /\ UNCHANGED art
    /\ UNCHANGED <<d1, created, obsRecording, claimedBy, sideVars, auxVars>>

\* the awaited child completed: continue-as-new (continuous) or return the dict
ChildCompleted(c) ==
    /\ ChkAt(c, "await_child")
    /\ art[c].status = "completed"
    /\ EndCheckRun(c, chk[c], chain)
    /\ UNCHANGED <<d1, created, obsRecording, art, claimedBy, faultsLeft, sideVars, auxVars>>

\* mutant: maximum_attempts=0 read as "no attempt left" instead of "no limit"
RetryAllowedZeroIsNoRetry(run) ==
    /\ run.status = "failed"
    /\ run.run_attempt < run.max_attempts

\* the engine retries a failed CreateArtworkWorkflow run under its retry policy
RetryAllowed(run) ==
    /\ run.status = "failed"
    /\ run.max_attempts = InfiniteAttempts \/ run.run_attempt < run.max_attempts

RetryArtRunWithin(r, cap) ==
    /\ RetryAllowed(art[r])
    /\ art[r].run_attempt < cap
    /\ art' = [art EXCEPT ![r] = FreshArtRun(@.cdp_url, @.continuous, @.submission_id,
                                             @.max_attempts, @.run_attempt + 1)]
    /\ UNCHANGED <<d1, created, obsRecording, chk, chain, claimedBy, faultsLeft>>

RetryArtRun(r) ==
    /\ RetryArtRunWithin(r, MaxRunAttempts)
    /\ UNCHANGED <<sideVars, auxVars>>

\* the child's retries are exhausted: the failure is raised in the parent
ChildFailed(c) ==
    /\ ChkAt(c, "await_child")
    /\ art[c].status = "failed"
    /\ ~RetryAllowed(art[c])
    /\ chk' = [chk EXCEPT ![c].status = "failed"]
    /\ chain' = ChainEnds(c, "failed")
    /\ UNCHANGED <<d1, created, obsRecording, art, claimedBy, faultsLeft, sideVars, auxVars>>

SwitchToScreensaver(c) ==
    /\ ChkAt(c, "switch_screensaver")
    /\ \/ /\ chk' = [chk EXCEPT ![c] = [ChkAdvance(chk[c], "countdown_update")
                                          EXCEPT !.seconds_remaining = CountdownSeconds]]
          /\ UNCHANGED <<chain, faultsLeft>>
       \/ ChkAttemptFails(c)
    /\ UNCHANGED <<d1, created, obsRecording, art, claimedBy, sideVars, auxVars>>

UpdateCountdownText(c) ==
    /\ ChkPlainActivity(c, "countdown_update", "countdown_sleep")
    /\ UNCHANGED <<d1, created, obsRecording, art, claimedBy, sideVars, auxVars>>

\* workflow.sleep(1 s) fires; next value of range(60, 0, -1) or loop exit
CountdownSleep(c) ==
    /\ ChkAt(c, "countdown_sleep")
    /\ IF chk[c].seconds_remaining - 1 > 0
       THEN /\ chk' = [chk EXCEPT ![c] = [ChkAdvance(chk[c], "countdown_update")
                                            EXCEPT !.seconds_remaining = @ - 1]]
            /\ UNCHANGED chain
       ELSE /\ chk' = [chk EXCEPT ![c] = ChkAdvance(chk[c], "check_inactivity")]
            /\ chain' = [chain EXCEPT ![c].cycles = @ + 1]
    /\ UNCHANGED <<d1, created, obsRecording, art, claimedBy, faultsLeft, sideVars, auxVars>>

\* check_inactivity_and_stop_streaming(15): True only if nothing is processing
\* and something was completed (long enough ago, with OBS still streaming)
MayStopStreaming ==
    /\ \A s \in SubIds : d1[s].status # "processing"
    /\ \E s \in SubIds : d1[s].status = "completed"

CheckInactivity(c) ==
    /\ ChkAt(c, "check_inactivity")
    /\ \/ \E streaming_stopped \in {FALSE} \cup (IF MayStopStreaming THEN {TRUE} ELSE {}) :
            LET run == [ChkAdvance(chk[c], "sleep_window")
                          EXCEPT !.streaming_stopped = streaming_stopped]
            IN  /\ IF streaming_stopped
                   THEN chk' = [chk EXCEPT ![c] = run] /\ UNCHANGED chain
                   ELSE EndCheckRun(c, run, chain)
                /\ UNCHANGED faultsLeft
       \/ ChkAttemptFails(c)
    /\ UNCHANGED <<d1, created, obsRecording, art, claimedBy, sideVars, auxVars>>

\* workflow.sleep(60 s) after streaming was stopped, then continue-as-new
SleepWindow(c) ==
    /\ ChkAt(c, "sleep_window")
    /\ EndCheckRun(c, ChkAdvance(chk[c], "done"), chain)
    /\ UNCHANGED <<d1, created, obsRecording, art, claimedBy, faultsLeft, sideVars, auxVars>>


\* ---------------------------------------------- CreateArtworkWorkflow.run
\* the environment's form: INSERT of a pending row into submissions
SubmitForm(s, upvotes, email) ==
    /\ d1[s].status = "absent"
    /\ d1' = [d1 EXCEPT ![s] = [status |-> "pending", upvote_count |-> upvotes,
                                created_at |-> created + 1, email |-> email]]
    /\ created' = created + 1
    /\ UNCHANGED <<obsRecording, chk, chain, art, claimedBy, faultsLeft, sideVars, auxVars>>

\* cli.py start_workflow: CreateArtworkWorkflow.run with args=[cdp_url, continuous]
CHROME_CDP_URL == "ws://a"

CliStart(continuous) ==
    /\ art[CliRun].status = "none"
    /\ art' = [art EXCEPT ![CliRun] =
                 FreshArtRun(CHROME_CDP_URL, continuous, NoSub,
                             IF continuous THEN InfiniteAttempts ELSE 1, 1)]
    /\ UNCHANGED <<d1, created, obsRecording, chk, chain, claimedBy, faultsLeft, sideVars, auxVars>>

\* mutant: timedelta(minutes=3) taken as 3 seconds
CliRetryPolicyMinutesAsSeconds ==
    [initial_interval |-> 10, maximum_interval |-> 3, backoff_coefficient |-> 2,
     maximum_attempts |-> InfiniteAttempts]

\* cli.py 93-98, in seconds: RetryPolicy(initial_interval=timedelta(seconds=10),
\* maximum_interval=timedelta(minutes=3), backoff_coefficient=2.0, maximum_attempts=0)
CliRetryPolicy ==
    [initial_interval |-> 10, maximum_interval |-> 3 * 60, backoff_coefficient |-> 2,
     maximum_attempts |-> InfiniteAttempts]

\* check_submissions.py 114-117: RetryPolicy(maximum_attempts=..., backoff_coefficient=2.0);
\* the intervals it does not name are the engine's defaults
ChildRetryPolicy(defaults, continuous) ==
    [initial_interval |-> defaults.initial_interval,
     maximum_interval |-> defaults.maximum_interval, backoff_coefficient |-> 2,
     maximum_attempts |-> IF continuous THEN InfiniteAttempts ELSE ChildMaxAttempts]

\* intervals an engine may use where the policy names none
InitialIntervals == {1, 3}
MaximumIntervals == {20, 100}

NoBackoff ==
    [defaults |-> [initial_interval |-> 1, maximum_interval |-> 100], delays |-> <<>>]

PolicyOf(r) ==
    IF r = CliRun THEN CliRetryPolicy ELSE ChildRetryPolicy(backoff.defaults, chk[r].continuous)

\* the interval grows by the coefficient at each retry and is cut at the cap
NextDelay(policy, previous) ==
    LET grown == previous * policy.backoff_coefficient IN
    IF grown > policy.maximum_interval THEN policy.maximum_interval ELSE grown

FirstDelay(policy) ==
    IF policy.initial_interval > policy.maximum_interval THEN policy.maximum_interval
    ELSE policy.initial_interval

\* the engine sleeps the backoff, then starts the next attempt of the run; the
\* delays restart with the first retry of an invocation
RetryWithBackoff(r) ==
    /\ RetryArtRunWithin(r, MaxBackoffAttempts)
    /\ backoff' = [backoff EXCEPT !.delays =
                      IF art[r].run_attempt = 1 THEN <<FirstDelay(PolicyOf(r))>>
                      ELSE Append(@, NextDelay(PolicyOf(r), @[Len(@)]))]
    /\ UNCHANGED <<session, detached, slots, auxVars>>

\* RetryPolicy(maximum_attempts=...) at each call site of CreateArtworkWorkflow.run
ArtMaxAttempts(pc) ==
    IF pc \in {"start_obs_recording", "browser_session", "stop_obs_recording", "compress_video"}
    THEN 2 ELSE 3

ActivityName(pc) ==
    CASE pc \in {"update_processing", "update_completed"} -> "update_submission_status"
      [] pc = "browser_session"  -> "browser_session_activity"
      [] pc = "extract_metadata" -> "extract_artwork_metadata"
      [] pc = "upload_image"     -> "upload_image_to_r2"
      [] pc = "upload_video"     -> "upload_video_to_r2"
      [] pc = "insert_d1"        -> "insert_artwork_to_d1"
      [] pc = "send_email"       -> "send_email_notification"
      [] pc = "cleanup_tab"      -> "cleanup_tab_activity"
      [] OTHER                   -> pc

\* the activity name enters the trace when its first attempt starts
Traced(run) ==
    IF run.attempt = 1 THEN Append(run.trace, ActivityName(run.pc)) ELSE run.trace

ArtAt(r, pc) == art[r].status = "running" /\ art[r].pc = pc

ArtOk(run, nextpc) == [run EXCEPT !.trace = Traced(run), !.pc = nextpc, !.attempt = 1]

ArtRetry(run) == [run EXCEPT !.trace = Traced(run), !.attempt = @ + 1]

\* mutant: the exhausted activity is scheduled afresh instead of failing the run
ArtAbortReschedules(run) == [run EXCEPT !.trace = Traced(run), !.attempt = 1]

\* the ActivityError reaches run() outside any try: the run ends Failed
ArtAbort(run) ==
    [run EXCEPT !.trace = Traced(run), !.status = "failed", !.failedAt = run.pc]

\* mutant: the optional call is not wrapped in try/except
ArtCaughtAborts(run, nextpc) == ArtAbort(run)

\* "except Exception as e": logged, the pipeline goes on
ArtCaught(run, nextpc) ==
    [ArtOk(run, nextpc) EXCEPT !.failedOptional = @ \cup {run.pc}]

\* a failed attempt at a call site without try/except
AttemptFailsUncaught(run) ==
    IF run.attempt < ArtMaxAttempts(run.pc) THEN ArtRetry(run) ELSE ArtAbort(run)

\* a failed attempt at a call site inside try/except Exception
AttemptFailsCaught(run, nextpc) ==
    IF run.attempt < ArtMaxAttempts(run.pc) THEN ArtRetry(run) ELSE ArtCaught(run, nextpc)

\* the call sites of CreateArtworkWorkflow.run inside try/except Exception
OptionalSteps == {"start_obs_recording", "stop_obs_recording", "compress_video", "upload_video"}

\* lines 67-75: update_submission_status(submission_id, "processing")
UpdateStatusProcessing(r) ==
    /\ ArtAt(r, "update_processing")
    /\ \/ /\ d1' = update_submission_status(d1, art[r].submission_id, "processing")
          /\ claimedBy' = [claimedBy EXCEPT ![art[r].submission_id] = @ \cup {r}]
          /\ art' = [art EXCEPT ![r] = [ArtOk(@, "start_obs_recording")
                                          EXCEPT !.claimed = art[r].submission_id]]
          /\ UNCHANGED faultsLeft
       \/ /\ Fault
          /\ art' = [art EXCEPT ![r] = AttemptFailsUncaught(@)]
          /\ UNCHANGED <<d1, claimedBy>>
    /\ UNCHANGED <<created, obsRecording, chk, chain, sideVars, auxVars>>

\* lines 77-88: start_obs_recording inside try/except; a failed attempt may
\* have stopped an existing recording or started one before the error
StartObsRecording(r) ==
    /\ ArtAt(r, "start_obs_recording")
    /\ \/ /\ obsRecording' = TRUE
          /\ art' = [art EXCEPT ![r] = ArtOk(@, "browser_session")]
          /\ UNCHANGED faultsLeft
       \/ /\ Fault
          /\ obsRecording' \in BOOLEAN
          /\ art' = [art EXCEPT ![r] = AttemptFailsCaught(@, "browser_session")]
    /\ UNCHANGED <<d1, created, chk, chain, claimedBy, sideVars, auxVars>>

\* browser_session_activity: the submission the attempt works on
SelectSubmission(t, submission_id) ==
    IF submission_id # NoSub THEN FetchSpecific(t, submission_id)
    ELSE get_next_submission(t)

\* how an attempt of browser_session_activity ended, as the engine sees it
AttemptReturned ==
    [raised |-> "none", propagated |-> "none", tab_created |-> TRUE,
     close_attempted |-> FALSE, close_failed |-> FALSE]

\* connect_over_cdp or new_page raised, before the try block and the tab
RaisedBeforeTab(error) ==
    [raised |-> error, propagated |-> error, tab_created |-> FALSE,
     close_attempted |-> FALSE, close_failed |-> FALSE]

\* the engine timed the attempt out (start_to_close or heartbeat): nothing
\* was raised as an Exception inside the activity, the except block is not run
TimedOutByEngine ==
    [raised |-> "none", propagated |-> "TimeoutError", tab_created |-> TRUE,
     close_attempted |-> FALSE, close_failed |-> FALSE]

\* mutant: an error of page.close() escapes the handler in place of the original
ExceptHandlerMasks(error, close_ok) ==
    [raised |-> error, propagated |-> IF close_ok THEN error ELSE "CloseError",
     tab_created |-> TRUE, close_attempted |-> TRUE, close_failed |-> ~close_ok]

\* activities.py 504-512: except Exception: try page.close() except Exception: log; raise
ExceptHandler(error, close_ok) ==
    [raised |-> error, propagated |-> error, tab_created |-> TRUE,
     close_attempted |-> TRUE, close_failed |-> ~close_ok]

BrowserAttemptFails(run, ending) ==
    [AttemptFailsUncaught(run) EXCEPT !.last_attempt = ending]

\* lines 90-100: browser_session_activity(cdp_url, submission_id)
BrowserSession(r) ==
    /\ ArtAt(r, "browser_session")
    /\ LET submission == SelectSubmission(d1, art[r].submission_id) IN
       \/ /\ submission # NoSub
          /\ art' = [art EXCEPT ![r] = [ArtOk(@, "stop_obs_recording")
                                          EXCEPT !.browser_sub = submission,
                                                 !.browser_email = d1[submission].email,
                                                 !.browser_done = TRUE,
                                                 !.last_attempt = AttemptReturned]]
          /\ UNCHANGED faultsLeft
       \/ \* raise ValueError("No pending submission found. ...")
          /\ submission = NoSub
          /\ \E close_ok \in BOOLEAN :
                art' = [art EXCEPT ![r] =
                          BrowserAttemptFails(@, ExceptHandler("ValueError", close_ok))]
          /\ UNCHANGED faultsLeft
       \/ \* any later failure inside the try (side panel, 12-minute timeout, download)
          /\ submission # NoSub
          /\ Fault
          /\ \E close_ok \in BOOLEAN :
                art' = [art EXCEPT ![r] =
                          BrowserAttemptFails(@, ExceptHandler("Error", close_ok))]
       \/ \* the browser cannot be reached, or the attempt is timed out by the engine
          /\ Fault
          /\ \E ending \in {RaisedBeforeTab("Error"), TimedOutByEngine} :
                art' = [art EXCEPT ![r] = BrowserAttemptFails(@, ending)]
    /\ UNCHANGED <<d1, created, obsRecording, chk, chain, claimedBy, sideVars, auxVars>>

\* where run() goes after the stop_obs_recording block
AfterStop(video_path) == IF video_path THEN "compress_video" ELSE "extract_metadata"

\* lines 106-121: stop_obs_recording inside try/except
StopObsRecording(r) ==
    /\ ArtAt(r, "stop_obs_recording")
    /\ \/ \* StopRecord accepted; the path arrives or not (event timeout, file missing)
          /\ obsRecording
          /\ \E video_path \in BOOLEAN :
                art' = [art EXCEPT ![r] = [ArtOk(@, AfterStop(video_path))
                                             EXCEPT !.video_path = video_path]]
          /\ obsRecording' = FALSE
          /\ UNCHANGED faultsLeft
       \/ \* StopRecord refused because no recording is active
          /\ ~obsRecording
          /\ art' = [art EXCEPT ![r] = AttemptFailsCaught(@, AfterStop(FALSE))]
          /\ UNCHANGED <<obsRecording, faultsLeft>>
       \/ /\ obsRecording
          /\ Fault
          /\ obsRecording' \in BOOLEAN
          /\ art' = [art EXCEPT ![r] = AttemptFailsCaught(@, AfterStop(FALSE))]
    /\ UNCHANGED <<d1, created, chk, chain, claimedBy, sideVars, auxVars>>

\* lines 123-141: compress_video inside try/except, only with a video path
CompressVideo(r) ==
    /\ ArtAt(r, "compress_video")
    /\ \/ /\ art' = [art EXCEPT ![r] = [ArtOk(@, "extract_metadata")
                                          EXCEPT !.compressed_video_path = TRUE]]
          /\ UNCHANGED faultsLeft
       \/ /\ Fault
          /\ art' = [art EXCEPT ![r] = AttemptFailsCaught(@, "extract_metadata")]
    /\ UNCHANGED <<d1, created, obsRecording, chk, chain, claimedBy, sideVars, auxVars>>

\* an activity outside try/except whose result does not steer the pipeline
ArtPlainActivity(r, pc, nextpc) ==
    /\ ArtAt(r, pc)
    /\ \/ /\ art' = [art EXCEPT ![r] = ArtOk(@, nextpc)]
          /\ UNCHANGED faultsLeft
       \/ /\ Fault
          /\ art' = [art EXCEPT ![r] = AttemptFailsUncaught(@)]

\* lines 146-155
ExtractMetadata(r) ==
    /\ ArtPlainActivity(r, "extract_metadata", "upload_image")
    /\ UNCHANGED <<d1, created, obsRecording, chk, chain, claimedBy, sideVars, auxVars>>

\* lines 161-176: upload_image_to_r2, then "if compressed_video_path"
UploadImage(r) ==
    /\ ArtAt(r, "upload_image")
    /\ \/ /\ art' = [art EXCEPT ![r] =
                       [ArtOk(@, IF art[r].compressed_video_path THEN "upload_video"
                                                                 ELSE "insert_d1")
                          EXCEPT !.image_url = TRUE]]
          /\ UNCHANGED faultsLeft
       \/ /\ Fault
          /\ art' = [art EXCEPT ![r] = AttemptFailsUncaught(@)]
    /\ UNCHANGED <<d1, created, obsRecording, chk, chain, claimedBy, sideVars, auxVars>>

\* lines 174-193: upload_video_to_r2 inside try/except
UploadVideo(r) ==
    /\ ArtAt(r, "upload_video")
    /\ \/ /\ art' = [art EXCEPT ![r] = [ArtOk(@, "insert_d1") EXCEPT !.video_url = TRUE]]
          /\ UNCHANGED faultsLeft
       \/ /\ Fault
          /\ art' = [art EXCEPT ![r] = AttemptFailsCaught(@, "insert_d1")]
    /\ UNCHANGED <<d1, created, obsRecording, chk, chain, claimedBy, sideVars, auxVars>>

\* lines 195-221: insert_artwork_to_d1 with metadata["videoUrl"] = video_url
InsertArtwork(r) ==
    /\ ArtAt(r, "insert_d1")
    /\ \/ /\ art' = [art EXCEPT ![r] =
                       [ArtOk(@, IF art[r].browser_sub # NoSub THEN "update_completed"
                                                              ELSE "cleanup_tab")
                          EXCEPT !.inserted = IF art[r].video_url THEN "url" ELSE "null"]]
          /\ UNCHANGED faultsLeft
       \/ /\ Fault
          /\ art' = [art EXCEPT ![r] = AttemptFailsUncaught(@)]
    /\ UNCHANGED <<d1, created, obsRecording, chk, chain, claimedBy, sideVars, auxVars>>

\* lines 221-232: update_submission_status(browser_result.submission_id, "completed", artwork_id)
UpdateStatusCompleted(r) ==
    /\ ArtAt(r, "update_completed")
    /\ \/ /\ d1' = update_submission_status(d1, art[r].browser_sub, "completed")
          /\ art' = [art EXCEPT ![r] = ArtOk(@, IF art[r].browser_email THEN "send_email"
                                                                       ELSE "cleanup_tab")]
          /\ UNCHANGED faultsLeft
       \/ /\ Fault
          /\ art' = [art EXCEPT ![r] = AttemptFailsUncaught(@)]
          /\ UNCHANGED d1
    /\ UNCHANGED <<created, obsRecording, chk, chain, claimedBy, sideVars, auxVars>>

\* lines 231-246: send_email_notification, not inside try/except in run();
\* the activity itself swallows any error of resend.Emails.send and returns,
\* so only an attempt that does not return in time (start_to_close 30 s) fails
SendEmail(r) ==
    /\ ArtAt(r, "send_email")
    /\ \/ /\ \E sent \in BOOLEAN :
                art' = [art EXCEPT ![r] = [ArtOk(@, "cleanup_tab")
                          EXCEPT !.email_outcome = IF sent THEN "sent" ELSE "swallowed"]]
          /\ UNCHANGED faultsLeft
       \/ /\ Fault
          /\ art' = [art EXCEPT ![r] = AttemptFailsUncaught(@)]
    /\ UNCHANGED <<d1, created, obsRecording, chk, chain, claimedBy, sideVars, auxVars>>

\* lines 248-266: cleanup_tab_activity, then return the result dict
CleanupTab(r) ==
    /\ ArtAt(r, "cleanup_tab")
    /\ \/ /\ art' = [art EXCEPT ![r] = [ArtOk(@, "done") EXCEPT !.status = "completed"]]
          /\ UNCHANGED faultsLeft
       \/ /\ Fault
          /\ art' = [art EXCEPT ![r] = AttemptFailsUncaught(@)]
    /\ UNCHANGED <<d1, created, obsRecording, chk, chain, claimedBy, sideVars, auxVars>>

\* ------------------------------------------------------- cancellation
\* where run() continues when an except block of an optional call has run
CaughtNext(run) ==
    CASE run.pc = "start_obs_recording" -> "browser_session"
      [] run.pc = "stop_obs_recording"  -> AfterStop(FALSE)
      [] run.pc = "compress_video"      -> "extract_metadata"
      [] run.pc = "upload_video"        -> "insert_d1"

\* the ActivityError of the cancelled activity is raised at the await in
\* run(): inside try/except Exception it is caught like any failure,
\* elsewhere it ends the run Cancelled
CancelledAt(run) ==
    IF run.pc \in OptionalSteps
    THEN ArtCaught(run, CaughtNext(run))
    ELSE [run EXCEPT !.trace = Traced(run), !.status = "cancelled"]

\* what the cancelled attempt may already have done outside the run
CancelledEffects(run) ==
    /\ obsRecording' \in IF run.pc \in {"start_obs_recording", "stop_obs_recording"}
                          THEN BOOLEAN ELSE {obsRecording}
    /\ d1' \in {d1} \cup
          (IF run.pc = "update_processing"
           THEN {update_submission_status(d1, run.submission_id, "processing")}
           ELSE IF run.pc = "update_completed"
           THEN {update_submission_status(d1, run.browser_sub, "completed")}
           ELSE {})

\* cancellation of the run is requested while its activity is in flight: the
\* activity is cancelled and not retried
RequestCancel(r) ==
    /\ art[r].status = "running"
    /\ ~art[r].cancel_requested
    /\ art' = [art EXCEPT ![r] = CancelledAt([@ EXCEPT !.cancel_requested = TRUE])]
    /\ CancelledEffects(art[r])
    /\ UNCHANGED <<created, chk, chain, claimedBy, faultsLeft, sideVars, auxVars>>

\* ------------------------------- browser_session_activity, step by step
\* heartbeat_timeout=timedelta(seconds=30) at the call site
HeartbeatTimeoutSeconds == 30

\* the run whose browser session is followed step by step
HbRun == 1

NoSession == [phase |-> "none", idle |-> 0, timeouts |-> 0, submission |-> NoSub]

\* mutant: the call site passes no heartbeat_timeout, nothing ever expires
HeartbeatNeverExpires(idle) == FALSE

\* no heartbeat for longer than heartbeat_timeout
HeartbeatExpired(idle) == idle > HeartbeatTimeoutSeconds

SessionIn(phases) ==
    /\ ArtAt(HbRun, "browser_session")
    /\ session.phase \in phases
    /\ ~HeartbeatExpired(session.idle)

SessionEnds(stalled) ==
    [NoSession EXCEPT !.timeouts = session.timeouts + (IF stalled THEN 1 ELSE 0)]

\* the engine starts an attempt; its heartbeat clock starts with it
BeginAttempt ==
    /\ ArtAt(HbRun, "browser_session")
    /\ session.phase = "none"
    /\ session' = [NoSession EXCEPT !.phase = "setup",
                      !.timeouts = IF art[HbRun].attempt = 1 THEN 0 ELSE session.timeouts]
    /\ UNCHANGED <<d1, created, obsRecording, chk, chain, art, claimedBy, faultsLeft,
                   detached, slots, backoff, auxVars>>

\* one second passes while the attempt is open, whatever the activity does
Tick ==
    /\ session.phase # "none"
    /\ session.idle <= HeartbeatTimeoutSeconds
    /\ session' = [session EXCEPT !.idle = @ + 1]
    /\ UNCHANGED <<d1, created, obsRecording, chk, chain, art, claimedBy, faultsLeft,
                   detached, slots, backoff, auxVars>>

\* activities.py 346-423: connect, new tab, fetch the submission, side panel,
\* Kid Pix, prompt, stop button visible; no heartbeat is sent in this part
FinishSetup ==
    /\ SessionIn({"setup"})
    /\ LET submission == SelectSubmission(d1, art[HbRun].submission_id) IN
       \/ /\ submission # NoSub
          /\ session' = [session EXCEPT !.phase = "polling", !.submission = submission]
          /\ UNCHANGED art
       \/ /\ submission = NoSub
          /\ \E close_ok \in BOOLEAN :
                art' = [art EXCEPT ![HbRun] =
                          BrowserAttemptFails(@, ExceptHandler("ValueError", close_ok))]
          /\ session' = SessionEnds(FALSE)
    /\ UNCHANGED <<d1, created, obsRecording, chk, chain, claimedBy, faultsLeft,
                   detached, slots, backoff, auxVars>>

\* activities.py 430-446: activity.heartbeat(), then is the stop button still visible
PollIteration ==
    /\ SessionIn({"polling"})
    /\ \E is_visible \in BOOLEAN :
          session' = [session EXCEPT !.idle = 0,
                         !.phase = IF is_visible THEN "polling" ELSE "saving"]
    /\ UNCHANGED <<d1, created, obsRecording, chk, chain, art, claimedBy, faultsLeft,
                   detached, slots, backoff, auxVars>>

\* activities.py 448-502: response, download, close the side panel, return
ReturnResult ==
    /\ SessionIn({"saving"})
    /\ art' = [art EXCEPT ![HbRun] = [ArtOk(@, "stop_obs_recording")
                                        EXCEPT !.browser_sub = session.submission,
                                               !.browser_email = d1[session.submission].email,
                                               !.browser_done = TRUE,
                                               !.last_attempt = AttemptReturned]]
    /\ session' = SessionEnds(FALSE)
    /\ UNCHANGED <<d1, created, obsRecording, chk, chain, claimedBy, faultsLeft,
                   detached, slots, backoff, auxVars>>

\* an Exception is raised in the attempt: before the tab exists, or inside the try
RaiseInAttempt ==
    /\ SessionIn({"setup", "polling", "saving"})
    /\ Fault
    /\ \E ending \in {ExceptHandler("Error", close_ok) : close_ok \in BOOLEAN}
                      \cup (IF session.phase = "setup" THEN {RaisedBeforeTab("Error")} ELSE {}) :
          art' = [art EXCEPT ![HbRun] = BrowserAttemptFails(@, ending)]
    /\ session' = SessionEnds(FALSE)
    /\ UNCHANGED <<d1, created, obsRecording, chk, chain, claimedBy, detached, slots, backoff, auxVars>>

\* the engine fails the attempt whose heartbeat is overdue; the activity has
\* neither returned nor raised
HeartbeatTimeout ==
    /\ ArtAt(HbRun, "browser_session")
    /\ session.phase # "none"
    /\ HeartbeatExpired(session.idle)
    /\ art' = [art EXCEPT ![HbRun] = BrowserAttemptFails(@, TimedOutByEngine)]
    /\ session' = SessionEnds(TRUE)
    /\ UNCHANGED <<d1, created, obsRecording, chk, chain, claimedBy, faultsLeft,
                   detached, slots, backoff, auxVars>>

\* ------------------------------------------ background child workflows
\* ProcessVideoWorkflow (backend/workflows/process_video.py) and
\* DeployGalleryWorkflow (workflows/deploy_gallery.py), started by a parent
\* run that does not wait for them
NoChild ==
    [status |-> "none", pc |-> "none", attempt |-> 1, success |-> FALSE,
     video_url |-> FALSE, parent_at_end |-> "none", succeeded |-> <<>>]

NoDetached == [parent |-> "none", pv |-> NoChild, dg |-> NoChild]

ChildTerminal == {"completed", "failed"}

\* the parent run is started
ParentStarts ==
    /\ detached.parent = "none"
    /\ detached' = [detached EXCEPT !.parent = "running"]
    /\ UNCHANGED <<d1, created, obsRecording, chk, chain, art, claimedBy, faultsLeft,
                   session, slots, backoff, auxVars>>

\* the parent starts the child with parent_close_policy ABANDON and goes on
StartProcessVideo ==
    /\ detached.parent = "running"
    /\ detached.pv.status = "none"
    /\ detached' = [detached EXCEPT !.pv = [NoChild EXCEPT !.status = "running",
                                                           !.pc = "compress_video"]]
    /\ UNCHANGED <<d1, created, obsRecording, chk, chain, art, claimedBy, faultsLeft,
                   session, slots, backoff, auxVars>>

StartDeployGallery ==
    /\ detached.parent = "running"
    /\ detached.dg.status = "none"
    /\ detached' = [detached EXCEPT !.dg = [NoChild EXCEPT !.status = "running",
                                                           !.pc = "rebuild_static_site"]]
    /\ UNCHANGED <<d1, created, obsRecording, chk, chain, art, claimedBy, faultsLeft,
                   session, slots, backoff, auxVars>>

\* mutant: the default policy, closing the parent terminates its open children
OnParentCloseTerminates(child) ==
    IF child.status = "running" THEN [child EXCEPT !.status = "terminated"] ELSE child

\* ABANDON: the close of the parent is not propagated to the child
OnParentClose(child) == child

\* the parent run returns, or is cancelled from outside
ParentCloses(outcome) ==
    /\ detached.parent = "running"
    /\ detached' = [detached EXCEPT !.parent = outcome,
                                    !.pv = OnParentClose(@),
                                    !.dg = OnParentClose(@)]
    /\ UNCHANGED <<d1, created, obsRecording, chk, chain, art, claimedBy, faultsLeft,
                   session, slots, backoff, auxVars>>

\* RetryPolicy(maximum_attempts=...) of the two background workflows
BgMaxAttempts(pc) ==
    IF pc \in {"compress_video", "rebuild_static_site"} THEN 2 ELSE 3

BgEnds(child, status) ==
    [child EXCEPT !.status = status, !.pc = "done", !.attempt = 1,
                  !.parent_at_end = detached.parent]

\* mutant: the activities are awaited outside try/except, the error fails the run
PvFailedAttemptRaises(child) ==
    IF child.attempt < BgMaxAttempts(child.pc)
    THEN [child EXCEPT !.attempt = @ + 1]
    ELSE BgEnds(child, "failed")

\* process_video.py 55-104: every activity is inside one try/except Exception,
\* the run logs the error and returns its dict
PvFailedAttempt(child) ==
    IF child.attempt < BgMaxAttempts(child.pc)
    THEN [child EXCEPT !.attempt = @ + 1]
    ELSE BgEnds(child, "completed")

PvAt(pc) == detached.pv.status = "running" /\ detached.pv.pc = pc

PvCompressVideo ==
    /\ PvAt("compress_video")
    /\ \/ /\ detached' = [detached EXCEPT !.pv.pc = "upload_video", !.pv.attempt = 1,
                                          !.pv.succeeded = Append(@, "compress_video")]
          /\ UNCHANGED faultsLeft
       \/ /\ Fault
          /\ detached' = [detached EXCEPT !.pv = PvFailedAttempt(@)]
    /\ UNCHANGED <<d1, created, obsRecording, chk, chain, art, claimedBy, session, slots, backoff, auxVars>>

PvUploadVideo ==
    /\ PvAt("upload_video")
    /\ \/ /\ detached' = [detached EXCEPT !.pv.pc = "update_artwork_video_url",
                                          !.pv.attempt = 1, !.pv.video_url = TRUE,
                                          !.pv.succeeded = Append(@, "upload_video_to_r2")]
          /\ UNCHANGED faultsLeft
       \/ /\ Fault
          /\ detached' = [detached EXCEPT !.pv = PvFailedAttempt(@)]
    /\ UNCHANGED <<d1, created, obsRecording, chk, chain, art, claimedBy, session, slots, backoff, auxVars>>

PvUpdateArtworkVideoUrl ==
    /\ PvAt("update_artwork_video_url")
    /\ \/ /\ detached' = [detached EXCEPT !.pv =
                          [BgEnds(@, "completed")
                             EXCEPT !.success = TRUE,
                                    !.succeeded = Append(@, "update_artwork_video_url")]]
          /\ UNCHANGED faultsLeft
       \/ /\ Fault
          /\ detached' = [detached EXCEPT !.pv = PvFailedAttempt(@)]
    /\ UNCHANGED <<d1, created, obsRecording, chk, chain, art, claimedBy, session, slots, backoff, auxVars>>

\* deploy_gallery.py 36-65: no try/except, an exhausted activity fails the run
DgFailedAttempt(child) ==
    IF child.attempt < BgMaxAttempts(child.pc)
    THEN [child EXCEPT !.attempt = @ + 1]
    ELSE BgEnds(child, "failed")

DgAt(pc) == detached.dg.status = "running" /\ detached.dg.pc = pc

DgRebuildStaticSite ==
    /\ DgAt("rebuild_static_site")
    /\ \/ /\ detached' = [detached EXCEPT !.dg.pc = "deploy_to_cloudflare", !.dg.attempt = 1,
                                          !.dg.succeeded = Append(@, "rebuild_static_site")]
          /\ UNCHANGED faultsLeft
       \/ /\ Fault
          /\ detached' = [detached EXCEPT !.dg = DgFailedAttempt(@)]
    /\ UNCHANGED <<d1, created, obsRecording, chk, chain, art, claimedBy, session, slots, backoff, auxVars>>

DgDeployToCloudflare ==
    /\ DgAt("deploy_to_cloudflare")
    /\ \/ /\ detached' = [detached EXCEPT !.dg =
                          [BgEnds(@, "completed")
                             EXCEPT !.success = TRUE,
                                    !.succeeded = Append(@, "deploy_to_cloudflare")]]
          /\ UNCHANGED faultsLeft
       \/ /\ Fault
          /\ detached' = [detached EXCEPT !.dg = DgFailedAttempt(@)]
    /\ UNCHANGED <<d1, created, obsRecording, chk, chain, art, claimedBy, session, slots, backoff, auxVars>>

PvNext == PvCompressVideo \/ PvUploadVideo \/ PvUpdateArtworkVideoUrl

DgNext == DgRebuildStaticSite \/ DgDeployToCloudflare

\* ------------------------------------------------- worker activity slots
\* mutant: the argument is left out of Worker(...), as in worker/main.py of the
\* earlier iteration: no limit the runs present can reach
MaxConcurrentActivitiesUnset == NumWorkerRuns

\* Worker(..., max_concurrent_activities=4)
max_concurrent_activities == 4

WorkerRuns == 1..NumWorkerRuns

NoSlots == [w \in WorkerRuns |-> "none"]

Executing == {w \in WorkerRuns : slots[w] = "executing"}

\* a workflow run issues its next activity: the task is put on the task queue
ScheduleActivity(w) ==
    /\ slots[w] = "none"
    /\ slots' = [slots EXCEPT ![w] = "queued"]
    /\ UNCHANGED <<d1, created, obsRecording, chk, chain, art, claimedBy, faultsLeft,
                   session, detached, backoff, auxVars>>

\* the worker polls for an activity task only while a slot is free
HasFreeSlot(n) == n < max_concurrent_activities

WorkerTakesTask(w) ==
    /\ slots[w] = "queued"
    /\ HasFreeSlot(Cardinality(Executing))
    /\ slots' = [slots EXCEPT ![w] = "executing"]
    /\ UNCHANGED <<d1, created, obsRecording, chk, chain, art, claimedBy, faultsLeft,
                   session, detached, backoff, auxVars>>

\* the attempt returns or fails: its slot is released
ActivityEnds(w) ==
    /\ slots[w] = "executing"
    /\ slots' = [slots EXCEPT ![w] = "none"]
    /\ UNCHANGED <<d1, created, obsRecording, chk, chain, art, claimedBy, faultsLeft,
                   session, detached, backoff, auxVars>>

\* --------------------------------------------- replay of a workflow run
\* run() of CheckSubmissionsWorkflow and of CreateArtworkWorkflow as the
\* engine executes it: resumed once per history event, issuing commands.
\* Two executions of the same run (the original one and a replay on a
\* restarted or second worker process) are fed the same events.
Executions == {1, 2}

ReplayedWorkflows == {"CheckSubmissionsWorkflow", "CreateArtworkWorkflow"}

\* activities.py 66-67: os.getenv("OBS_MAIN_SCENE", "Main Scene") and
\* os.getenv("OBS_SCREENSAVER_SCENE", "Screensaver"), read when the worker
\* process imports the module
MainSceneSettings == {"Main Scene", "Studio"}
ScreensaverSceneSettings == {"Screensaver", "Idle"}

Environments ==
    [OBS_MAIN_SCENE : MainSceneSettings, OBS_SCREENSAVER_SCENE : ScreensaverSceneSettings]

NoReplay == [status |-> "none", history |-> <<>>, env |-> <<>>, ex |-> <<>>]

Activity(name, args) == [kind |-> "activity", name |-> name, args |-> args, id |-> 0]

ChildWorkflow(name, args, id) == [kind |-> "child", name |-> name, args |-> args, id |-> id]

Timer(seconds) == [kind |-> "timer", name |-> "sleep", args |-> <<seconds>>, id |-> 0]

ContinueAsNewCommand(args) ==
    [kind |-> "continue_as_new", name |-> "CheckSubmissionsWorkflow", args |-> args, id |-> 0]

\* the state of one execution of run(): its arguments, where it is suspended,
\* its locals and the commands it issued so far
FreshExecution(wf, cdp_url, continuous, submission_id) ==
    [wf |-> wf, cdp_url |-> cdp_url, continuous |-> continuous,
     submission_id |-> submission_id,
     status |-> "running", pc |-> "entry", now |-> 0, issued |-> <<>>,
     seconds_remaining |-> 0, submission |-> NoSub,
     browser_sub |-> NoSub, browser_email |-> FALSE,
     video_path |-> FALSE, compressed_video_path |-> FALSE, video_url |-> FALSE,
     artwork_id |-> 0]

Issue(w, command, pc) == [w EXCEPT !.issued = Append(@, command), !.pc = pc]

Returns(w) == [w EXCEPT !.status = "completed", !.pc = "done"]

Raises(w) == [w EXCEPT !.status = "failed", !.pc = "done"]

\* workflow.now(): the time of the workflow task being executed, which the
\* engine takes from the history (here: the number of events consumed)
WorkflowNow(w) == w.now

\* check_submissions.py 185-187 and 124-126
ChkContinueAsNew(w) ==
    [Issue(w, ContinueAsNewCommand(<<w.cdp_url, w.continuous>>), "done")
        EXCEPT !.status = "continued"]

\* check_submissions.py 61-67: the first command of the run
ChkEntry(w, environ) ==
    Issue(w, Activity("switch_obs_scene", <<environ.OBS_MAIN_SCENE>>), "switch_main")

\* check_submissions.py 70-196: the run resumed with the result of the
\* command it awaits
ChkResume(w, ev, environ) ==
    IF ~ev.ok THEN Raises(w)
    ELSE CASE w.pc = "switch_main" ->
                Issue(w, Activity("ensure_obs_streaming", <<>>), "ensure_streaming")
           [] w.pc = "ensure_streaming" ->
                Issue(w, Activity("visit_gallery_activity", <<w.cdp_url>>), "visit_gallery")
           [] w.pc = "visit_gallery" ->
                Issue(w, Activity("check_for_pending_submissions", <<>>), "check_pending")
           [] w.pc = "check_pending" ->
                IF ev.sub # NoSub
                THEN Issue([w EXCEPT !.submission = ev.sub],
                           ChildWorkflow("CreateArtworkWorkflow",
                                         <<w.cdp_url, FALSE, ev.sub>>, WorkflowNow(w)),
                           "child")
                ELSE IF w.continuous
                THEN Issue(w, Activity("switch_obs_scene", <<environ.OBS_SCREENSAVER_SCENE>>),
                           "switch_screensaver")
                ELSE Returns(w)
           [] w.pc = "child" ->
                IF w.continuous THEN ChkContinueAsNew(w) ELSE Returns(w)
           [] w.pc = "switch_screensaver" ->
                Issue([w EXCEPT !.seconds_remaining = CountdownSeconds],
                      Activity("update_countdown_text", <<CountdownSeconds>>), "countdown_text")
           [] w.pc = "countdown_text" ->
                Issue(w, Timer(1), "countdown_sleep")
           [] w.pc = "countdown_sleep" ->
                IF w.seconds_remaining > 1
                THEN Issue([w EXCEPT !.seconds_remaining = @ - 1],
                           Activity("update_countdown_text", <<w.seconds_remaining - 1>>),
                           "countdown_text")
                ELSE Issue(w, Activity("check_inactivity_and_stop_streaming", <<15>>),
                           "check_inactivity")
           [] w.pc = "check_inactivity" ->
                IF ev.flag THEN Issue(w, Timer(60), "sleep_window") ELSE ChkContinueAsNew(w)
           [] w.pc = "sleep_window" -> ChkContinueAsNew(w)

\* create_artwork.py 77-83
ArtIssueStartObs(w) == Issue(w, Activity("start_obs_recording", <<>>), "start_obs_recording")

\* create_artwork.py 67-74
ArtEntry(w) ==
    IF w.submission_id # NoSub
    THEN Issue(w, Activity("update_submission_status", <<w.submission_id, "processing">>),
               "update_processing")
    ELSE ArtIssueStartObs(w)

\* create_artwork.py 143-155: the artwork id is taken from workflow.now()
ArtIssueExtract(w) ==
    Issue([w EXCEPT !.artwork_id = WorkflowNow(w)],
          Activity("extract_artwork_metadata", <<"response_html">>), "extract_metadata")

\* create_artwork.py 195-213
ArtIssueInsert(w) ==
    Issue(w, Activity("insert_artwork_to_d1",
                      <<w.artwork_id,
                        [id |-> w.artwork_id, createdAt |-> WorkflowNow(w),
                         videoUrl |-> w.video_url, submissionId |-> w.browser_sub,
                         autogenerated |-> w.browser_sub = NoSub]>>),
          "insert_d1")

\* create_artwork.py 248-257
ArtIssueCleanup(w) ==
    Issue(w, Activity("cleanup_tab_activity", <<w.cdp_url, "tab_url">>), "cleanup_tab")

\* create_artwork.py 77-266: the run resumed with the result of the command
\* it awaits; a failure inside try/except Exception is logged and passed over
ArtResume(w, ev) ==
    CASE w.pc = "start_obs_recording" ->
           Issue(w, Activity("browser_session_activity", <<w.cdp_url, w.submission_id>>),
                 "browser_session")
      [] w.pc = "stop_obs_recording" ->
           LET v == [w EXCEPT !.video_path = ev.ok /\ ev.flag] IN
           IF v.video_path
           THEN Issue(v, Activity("compress_video", <<"video_path">>), "compress_video")
           ELSE ArtIssueExtract(v)
      [] w.pc = "compress_video" ->
           ArtIssueExtract([w EXCEPT !.compressed_video_path = ev.ok])
      [] w.pc = "upload_video" ->
           ArtIssueInsert([w EXCEPT !.video_url = ev.ok])
      [] ~ev.ok /\ w.pc \notin OptionalSteps -> Raises(w)
      [] ev.ok /\ w.pc = "update_processing" -> ArtIssueStartObs(w)
      [] ev.ok /\ w.pc = "browser_session" ->
           Issue([w EXCEPT !.browser_sub = ev.sub, !.browser_email = ev.flag],
                 Activity("stop_obs_recording", <<>>), "stop_obs_recording")
      [] ev.ok /\ w.pc = "extract_metadata" ->
           Issue(w, Activity("upload_image_to_r2", <<w.artwork_id, "image_path">>),
                 "upload_image")
      [] ev.ok /\ w.pc = "upload_image" ->
           IF w.compressed_video_path
           THEN Issue(w, Activity("upload_video_to_r2", <<w.artwork_id, "compressed">>),
                      "upload_video")
           ELSE ArtIssueInsert(w)
      [] ev.ok /\ w.pc = "insert_d1" ->
           IF w.browser_sub # NoSub
           THEN Issue(w, Activity("update_submission_status",
                                  <<w.browser_sub, "completed", w.artwork_id>>),
                      "update_completed")
           ELSE ArtIssueCleanup(w)
      [] ev.ok /\ w.pc = "update_completed" ->
           IF w.browser_email
           THEN Issue(w, Activity("send_email_notification",
                                  <<w.browser_sub, w.artwork_id, "title", w.artwork_id>>),
                      "send_email")
           ELSE ArtIssueCleanup(w)
      [] ev.ok /\ w.pc = "send_email" -> ArtIssueCleanup(w)
      [] ev.ok /\ w.pc = "cleanup_tab" -> Returns(w)

Entry(w, environ) ==
    IF w.wf = "CheckSubmissionsWorkflow" THEN ChkEntry(w, environ) ELSE ArtEntry(w)

\* an execution that has ended reads no further event
Resume(w, ev, environ) ==
    IF w.status # "running" THEN w
    ELSE LET t == [w EXCEPT !.now = @ + 1] IN
         IF w.wf = "CheckSubmissionsWorkflow" THEN ChkResume(t, ev, environ)
         ELSE ArtResume(t, ev)

\* the command the original execution is suspended on
Awaited == replay.ex[1].issued[Len(replay.ex[1].issued)]

ReplayFrame == UNCHANGED <<pipelineVars, sideVars, pa, loop, obs, rec, inact, gallery, browser>>

\* a run is started and executed by two worker processes, each with the
\* environment it was launched in
StartExecutions ==
    /\ replay.status = "none"
    /\ \E wf \in ReplayedWorkflows, cdp_url \in CdpUrls, continuous \in BOOLEAN,
          submission_id \in {NoSub} \cup SubIds, env1, env2 \in Environments :
          /\ wf = "CheckSubmissionsWorkflow" => submission_id = NoSub
          /\ wf = "CreateArtworkWorkflow" => ~continuous
          /\ replay' = [status |-> "open", history |-> <<>>,
                        env |-> <<env1, env2>>,
                        ex |-> <<Entry(FreshExecution(wf, cdp_url, continuous, submission_id), env1),
                                 Entry(FreshExecution(wf, cdp_url, continuous, submission_id), env2)>>]
    /\ ReplayFrame

\* the event is appended to the history and both executions are resumed with it
Deliver(ev) ==
    replay' = [replay EXCEPT
                 !.history = Append(@, ev),
                 !.ex = [e \in Executions |-> Resume(replay.ex[e], ev, replay.env[e])]]

AwaitsKind(kind) ==
    /\ replay.status = "open"
    /\ replay.ex[1].status = "running"
    /\ Awaited.kind = kind

\* what the awaited activity can return
ResultEvents(name) ==
    IF name = "check_for_pending_submissions"
    THEN {[ok |-> TRUE, sub |-> s, flag |-> FALSE] : s \in {NoSub} \cup SubIds}
    ELSE IF name = "browser_session_activity"
    THEN {[ok |-> TRUE, sub |-> s, flag |-> f] : s \in {NoSub} \cup SubIds, f \in BOOLEAN}
    ELSE IF name \in {"check_inactivity_and_stop_streaming", "stop_obs_recording"}
    THEN {[ok |-> TRUE, sub |-> NoSub, flag |-> f] : f \in BOOLEAN}
    ELSE {[ok |-> TRUE, sub |-> NoSub, flag |-> FALSE]}

FailureEvent == [ok |-> FALSE, sub |-> NoSub, flag |-> FALSE]

ActivityTaskCompleted ==
    /\ AwaitsKind("activity")
    /\ \E ev \in ResultEvents(Awaited.name) :
          /\ Awaited.name = "browser_session_activity" /\ ev.sub = NoSub => ~ev.flag
          /\ Deliver(ev)
    /\ ReplayFrame

\* the last allowed attempt of the activity failed
ActivityTaskFailed ==
    /\ AwaitsKind("activity")
    /\ Deliver(FailureEvent)
    /\ ReplayFrame

ChildWorkflowCompleted ==
    /\ AwaitsKind("child")
    /\ Deliver([ok |-> TRUE, sub |-> NoSub, flag |-> FALSE])
    /\ ReplayFrame

ChildWorkflowFailed ==
    /\ AwaitsKind("child")
    /\ Deliver(FailureEvent)
    /\ ReplayFrame

TimerFired ==
    /\ AwaitsKind("timer")
    /\ Deliver([ok |-> TRUE, sub |-> NoSub, flag |-> FALSE])
    /\ ReplayFrame

\* ------------------------------------------------ worker registrations
\* the two worker processes: worker/main.py and backend/worker/main.py; both
\* poll TASK_QUEUE = "claude-draws-queue"
Workers == {"worker", "backend_worker"}

\* workflows=[...] of Worker(...)
RegisteredWorkflows(w) ==
    IF w = "worker" THEN {"ProcessArtworkWorkflow"}
    ELSE {"CheckSubmissionsWorkflow", "CreateArtworkWorkflow"}

\* activities=[...] of Worker(...)
RegisteredActivities(w) ==
    IF w = "worker"
    THEN {"upload_image_to_r2", "upload_metadata_to_r2", "append_to_gallery_metadata",
          "rebuild_static_site", "deploy_to_cloudflare"}
    ELSE {"browser_session_activity", "check_for_pending_submissions",
          "check_inactivity_and_stop_streaming", "cleanup_tab_activity", "compress_video",
          "ensure_obs_streaming", "extract_artwork_metadata", "insert_artwork_to_d1",
          "rotate_screensaver_video", "send_email_notification", "start_obs_recording",
          "stop_obs_recording", "switch_obs_scene", "update_countdown_text",
          "update_submission_status", "upload_image_to_r2", "upload_video_to_r2",
          "visit_gallery_activity"}

\* the activities ProcessArtworkWorkflow.run awaits, in program order
PaSteps ==
    <<"extract_artwork_metadata", "upload_image_to_r2", "upload_metadata_to_r2",
      "append_to_gallery_metadata", "rebuild_static_site", "deploy_to_cloudflare">>

\* the call sites of CreateArtworkWorkflow.run
ArtCallSites ==
    {"update_processing", "start_obs_recording", "browser_session", "stop_obs_recording",
     "compress_video", "extract_metadata", "upload_image", "upload_video", "insert_d1",
     "update_completed", "send_email", "cleanup_tab"}

\* the activity types a workflow type passes to workflow.execute_activity
IssuedActivities(wf) ==
    CASE wf = "ProcessArtworkWorkflow" -> {PaSteps[i] : i \in DOMAIN PaSteps}
      [] wf = "CreateArtworkWorkflow" -> {ActivityName(pc) : pc \in ArtCallSites}
      [] wf = "CheckSubmissionsWorkflow" ->
            {"switch_obs_scene", "ensure_obs_streaming", "visit_gallery_activity",
             "check_for_pending_submissions", "update_countdown_text",
             "check_inactivity_and_stop_streaming"}

\* the workflow types a workflow type passes to workflow.execute_child_workflow
IssuedChildren(wf) ==
    IF wf = "CheckSubmissionsWorkflow" THEN {"CreateArtworkWorkflow"} ELSE {}

\* ------------------------------------------------ ProcessArtworkWorkflow
\* workflow.now() at the entry of run(), and what deploy_to_cloudflare returns
PaTimestamps == {1760288744, 1760288745}
GalleryUrls == {"https://claudedraws.com", "https://claude-draws.workers.dev"}

NoPa ==
    [status |-> "none", polling |-> {}, step |-> 1, attempt |-> 1, trace |-> <<>>,
     env_failures |-> FALSE, artwork_id |-> <<"kidpix-", 0>>, gallery_url |-> "",
     artwork_url |-> <<>>]

\* RetryPolicy(maximum_attempts=...) at the call sites of ProcessArtworkWorkflow.run
PaMaxAttempts(name) == IF name = "rebuild_static_site" THEN 2 ELSE 3

PaFrame == UNCHANGED <<pipelineVars, sideVars, replay, loop, obs, rec, inact, gallery, browser>>

\* scripts/test_workflow.py: client.execute_workflow(ProcessArtworkWorkflow.run, ...)
\* on "claude-draws-queue", which the worker that registers the workflow
\* polls, alone or next to the backend worker
StartProcessArtwork ==
    /\ pa.status = "none"
    /\ \E now \in PaTimestamps, polling \in SUBSET Workers :
          /\ \E w \in polling : "ProcessArtworkWorkflow" \in RegisteredWorkflows(w)
          /\ pa' = [NoPa EXCEPT !.status = "running", !.polling = polling,
                                !.artwork_id = <<"kidpix-", now>>]
    /\ PaFrame

PaInvoked(run) ==
    IF run.attempt = 1 THEN Append(run.trace, PaSteps[run.step]) ELSE run.trace

\* no try/except in run(): an activity out of attempts fails the run
PaAttemptFails(run) ==
    IF run.attempt < PaMaxAttempts(PaSteps[run.step])
    THEN [run EXCEPT !.trace = PaInvoked(run), !.attempt = @ + 1]
    ELSE [run EXCEPT !.trace = PaInvoked(run), !.status = "failed"]

\* process_artwork.py 129-137
PaReturns(run, gallery_url) ==
    [run EXCEPT !.trace = PaInvoked(run), !.status = "completed",
                !.gallery_url = gallery_url,
                !.artwork_url = <<gallery_url, "/artwork/", run.artwork_id>>]

PaActivitySucceeds(run) ==
    IF run.step < Len(PaSteps)
    THEN {[run EXCEPT !.trace = PaInvoked(run), !.step = @ + 1, !.attempt = 1]}
    ELSE {PaReturns(run, gallery_url) : gallery_url \in GalleryUrls}

PaAwaits(name) == pa.status = "running" /\ PaSteps[pa.step] = name

\* one attempt of the awaited activity: the task is taken by one of the
\* polling workers; a worker on which the type is not registered fails the
\* attempt, a worker on which it is registered runs the function, which
\* returns or raises
PaAttempt ==
    \E w \in pa.polling :
       \/ /\ PaSteps[pa.step] \in RegisteredActivities(w)
          /\ pa' \in PaActivitySucceeds(pa)
       \/ /\ PaSteps[pa.step] \in RegisteredActivities(w)
          /\ pa' = PaAttemptFails([pa EXCEPT !.env_failures = TRUE])
       \/ /\ PaSteps[pa.step] \notin RegisteredActivities(w)
          /\ pa' = PaAttemptFails(pa)

\* process_artwork.py 55-64
PaExtractArtworkMetadata ==
    /\ PaAwaits("extract_artwork_metadata")
    /\ PaAttempt
    /\ PaFrame

\* process_artwork.py 69-78
PaUploadImageToR2 ==
    /\ PaAwaits("upload_image_to_r2")
    /\ PaAttempt
    /\ PaFrame

\* process_artwork.py 82-97
PaUploadMetadataToR2 ==
    /\ PaAwaits("upload_metadata_to_r2")
    /\ PaAttempt
    /\ PaFrame

\* process_artwork.py 101-107
PaAppendToGalleryMetadata ==
    /\ PaAwaits("append_to_gallery_metadata")
    /\ PaAttempt
    /\ PaFrame

\* process_artwork.py 111-116
PaRebuildStaticSite ==
    /\ PaAwaits("rebuild_static_site")
    /\ PaAttempt
    /\ PaFrame

\* process_artwork.py 120-137
PaDeployToCloudflare ==
    /\ PaAwaits("deploy_to_cloudflare")
    /\ PaAttempt
    /\ PaFrame

\* ------------------- browser_session_activity: the completion-polling loop
\* activities.py 425-446, times in milliseconds
\* mutant: a bound longer than the start_to_close timeout of the call site
TimeoutMsBeyondStartToClose == 16 * 60 * 1000

\* timeout_ms = 12 * 60 * 1000
timeout_ms == 12 * 60 * 1000

\* start_to_close_timeout=timedelta(minutes=15) at the call site
StartToCloseMs == 15 * 60 * 1000

\* page.wait_for_timeout(1000)
PollWaitMs == 1000

\* time.time() when the loop is entered, and how long one is_visible() call takes
LoopStartTimesMs == {0, 1000}
IsVisibleLatenciesMs == {0, 500}

NoLoop ==
    [phase |-> "none", start_time |-> 0, clock |-> 0, heartbeats |-> 0,
     timed_out_at |-> 0]

\* (time.time() - start_time) * 1000
ElapsedMs == loop.clock - loop.start_time

LoopFrame == UNCHANGED <<pipelineVars, sideVars, replay, pa, obs, rec, inact, gallery, browser>>

\* start_time = time.time()
EnterPollLoop ==
    /\ loop.phase = "none"
    /\ \E t \in LoopStartTimesMs :
          loop' = [NoLoop EXCEPT !.phase = "top", !.start_time = t, !.clock = t]
    /\ LoopFrame

\* activity.heartbeat(), the first statement of the loop body
LoopHeartbeat ==
    /\ loop.phase = "top"
    /\ loop' = [loop EXCEPT !.phase = "heartbeat_sent", !.heartbeats = 1]
    /\ LoopFrame

\* is_visible = await stop_button.is_visible(); if not is_visible: break
CheckStopButton ==
    /\ loop.phase = "heartbeat_sent"
    /\ \E is_visible \in BOOLEAN, latency \in IsVisibleLatenciesMs :
          loop' = [loop EXCEPT !.clock = @ + latency,
                               !.phase = IF is_visible THEN "still_visible" ELSE "exited"]
    /\ LoopFrame

\* elapsed_ms = ...; if elapsed_ms > timeout_ms: raise TimeoutError(...)
CheckLoopTimeout ==
    /\ loop.phase = "still_visible"
    /\ loop' = IF ElapsedMs > timeout_ms
               THEN [loop EXCEPT !.phase = "raised", !.timed_out_at = ElapsedMs]
               ELSE [loop EXCEPT !.phase = "waiting"]
    /\ LoopFrame

\* await page.wait_for_timeout(1000), then the next iteration
WaitBeforeNextCheck ==
    /\ loop.phase = "waiting"
    /\ loop' = [loop EXCEPT !.phase = "top", !.clock = @ + PollWaitMs, !.heartbeats = 0]
    /\ LoopFrame

LoopNext ==
    \/ LoopHeartbeat
    \/ CheckStopButton
    \/ CheckLoopTimeout
    \/ WaitBeforeNextCheck

\* ------------------------------------------------------- OBSWebSocketClient
\* coroutines of the worker that call send_request on one client
Callers == {"a", "b"}

\* how many request ids uuid.uuid4() is asked for, the client's timeout in
\* clock ticks, and how many frames the socket buffers for the receive loop
MaxRequests == 2
TimeoutTicks == 1
MaxInFlight == 2

RequestIds == 1..MaxRequests

\* a requestId no send_request of this client has generated
UnknownRequestId == 0

NoMessage == [op |-> 0, requestId |-> 0, result |-> FALSE, responseData |-> 0]

\* {"op": 7, "d": {"requestId": ..., "requestStatus": {"result": ...},
\*                 "responseData": ...}}; the data answers the request named
RequestResponse(request_id, result) ==
    [op |-> 7, requestId |-> request_id, result |-> result,
     responseData |-> request_id]

\* a frame json.loads() rejects
BadFrame == [op |-> -1, requestId |-> 0, result |-> FALSE, responseData |-> 0]

\* asyncio.Future()
NoFuture == [state |-> "none", result |-> NoMessage]
PendingFuture == [state |-> "pending", result |-> NoMessage]

NoCall ==
    [pc |-> "idle", request_id |-> 0, waited |-> 0,
     exception |-> "none", reason |-> "none", returned |-> 0]

\* OBSWebSocketClient.__init__
NoObs ==
    [websocket |-> "None", receive_task |-> "none", response_futures |-> {},
     futures |-> [i \in RequestIds |-> NoFuture],
     calls |-> [c \in Callers |-> NoCall],
     uuid4 |-> 1, sent |-> {}, wire |-> {}, readers |-> {}]

ObsFrame == UNCHANGED <<pipelineVars, sideVars, replay, pa, loop, rec, inact, gallery, browser>>

\* future.done()
FutureDone(request_id) == obs.futures[request_id].state \in {"done", "cancelled"}

\* self.websocket = await websockets.connect(...);
\* self._receive_task = asyncio.create_task(self._receive_messages());
\* __aenter__ is the only caller, once per client
Connect ==
    /\ obs.websocket = "None"
    /\ obs.receive_task = "none"
    /\ obs' = [obs EXCEPT !.websocket = "open", !.receive_task = "running",
                          !.sent = {}, !.wire = {}]
    /\ ObsFrame

\* self._receive_task.cancel(); await self.websocket.close(); self.websocket = None
Disconnect ==
    /\ obs.websocket # "None"
    /\ obs' = [obs EXCEPT !.websocket = "None",
                          !.receive_task = IF @ = "running" THEN "cancelled" ELSE @,
                          !.sent = {}, !.wire = {}]
    /\ ObsFrame

\* the socket's receive buffer has room for one more frame
CanDeliver(message) ==
    /\ obs.websocket = "open"
    /\ message \notin obs.wire
    /\ Cardinality(obs.wire) < MaxInFlight

\* OBS or the network closes the connection; self.websocket keeps the object
ConnectionCloses ==
    /\ obs.websocket = "open"
    /\ obs' = [obs EXCEPT !.websocket = "closed"]
    /\ ObsFrame

\* OBS answers a request it has received, with either status, possibly again,
\* or names a request id this client does not know
ServerResponds ==
    /\ \E request_id \in obs.sent \cup {UnknownRequestId}, result \in BOOLEAN :
          /\ request_id = UnknownRequestId => result
          /\ CanDeliver(RequestResponse(request_id, result))
          /\ obs' = [obs EXCEPT !.wire = @ \cup {RequestResponse(request_id, result)},
                                !.sent = @ \ {request_id}]
    /\ ObsFrame

\* a repeated answer to a request id whose future has already been removed
ServerRepeats ==
    /\ \E request_id \in RequestIds, result \in {TRUE} :
          /\ obs.futures[request_id].state # "none"
          /\ request_id \notin obs.response_futures
          /\ CanDeliver(RequestResponse(request_id, result))
          /\ obs' = [obs EXCEPT !.wire = @ \cup {RequestResponse(request_id, result)}]
    /\ ObsFrame

ServerSendsBadFrame ==
    /\ CanDeliver(BadFrame)
    /\ obs' = [obs EXCEPT !.wire = @ \cup {BadFrame}]
    /\ ObsFrame

\* the future a RequestResponse resolves when every pending one is taken in turn
OldestPendingFuture(message) ==
    IF obs.response_futures = {} THEN {}
    ELSE {CHOOSE i \in obs.response_futures : \A j \in obs.response_futures : i <= j}

\* request_id = data["d"].get("requestId");
\* if request_id in self._response_futures: future = self._response_futures.pop(request_id)
ResolvedFuture(message) == {message.requestId} \cap obs.response_futures

\* one iteration of `async for message in self.websocket` in _receive_messages
ReceiveMessages ==
    /\ obs.receive_task = "running"
    /\ \E message \in obs.wire :
          obs' = [obs EXCEPT
                    !.wire = @ \ {message},
                    !.readers = @ \cup {"_receive_messages"},
                    !.receive_task = IF message.op = 7 THEN @ ELSE "done",
                    !.response_futures =
                        IF message.op = 7 THEN @ \ ResolvedFuture(message) ELSE @,
                    !.futures =
                        [i \in RequestIds |->
                            IF /\ message.op = 7
                               /\ i \in ResolvedFuture(message)
                               /\ ~FutureDone(i)
                            THEN [state |-> "done", result |-> message]
                            ELSE @[i]]]
    /\ ObsFrame

\* except websockets.exceptions.ConnectionClosed, after the buffered frames
ReceiveLoopEnds ==
    /\ obs.receive_task = "running"
    /\ obs.websocket = "closed"
    /\ obs.wire = {}
    /\ obs' = [obs EXCEPT !.receive_task = "done",
                          !.readers = @ \cup {"_receive_messages"}]
    /\ ObsFrame

\* send_request up to `await asyncio.wait_for(future, timeout=self.timeout)`:
\* the connection check, the new future in the map, websocket.send()
SendRequest(c) ==
    /\ obs.calls[c].pc \in {"idle", "returned", "raised"}
    /\ IF obs.websocket = "None"
       THEN obs' = [obs EXCEPT !.calls[c] =
                        [NoCall EXCEPT !.pc = "raised",
                                       !.exception = "OBSWebSocketError",
                                       !.reason = "not_connected"]]
       ELSE /\ obs.uuid4 <= MaxRequests
            /\ LET request_id == obs.uuid4 IN
               obs' = [obs EXCEPT
                         !.uuid4 = @ + 1,
                         !.response_futures = @ \cup {request_id},
                         !.futures[request_id] = PendingFuture,
                         !.sent = IF obs.websocket = "open"
                                  THEN @ \cup {request_id} ELSE @,
                         !.calls[c] =
                            IF obs.websocket = "open"
                            THEN [NoCall EXCEPT !.pc = "waiting",
                                                !.request_id = request_id]
                            ELSE [NoCall EXCEPT !.pc = "raised",
                                                !.request_id = request_id,
                                                !.exception = "ConnectionClosed",
                                                !.reason = "send"]]
    /\ ObsFrame

\* wait_for returns the future's result: the status check and the return
ResponseArrives(c) ==
    /\ obs.calls[c].pc = "waiting"
    /\ obs.futures[obs.calls[c].request_id].state = "done"
    /\ LET response == obs.futures[obs.calls[c].request_id].result IN
       obs' = [obs EXCEPT !.calls[c] =
                  IF response.result
                  THEN [@ EXCEPT !.pc = "returned",
                                 !.returned = response.responseData]
                  ELSE [@ EXCEPT !.pc = "raised",
                                 !.exception = "OBSWebSocketError",
                                 !.reason = "failed"]]
    /\ ObsFrame

\* except asyncio.TimeoutError: self._response_futures.pop(request_id, None)
RequestTimesOut(c) ==
    /\ obs.calls[c].pc = "waiting"
    /\ obs.futures[obs.calls[c].request_id].state = "pending"
    /\ obs.calls[c].waited >= TimeoutTicks
    /\ obs' = [obs EXCEPT
                 !.response_futures = @ \ {obs.calls[c].request_id},
                 !.futures[obs.calls[c].request_id].state = "cancelled",
                 !.calls[c] = [@ EXCEPT !.pc = "raised",
                                        !.exception = "OBSWebSocketError",
                                        !.reason = "timeout"]]
    /\ ObsFrame

\* the event loop's clock moves by one tick for every waiting send_request; a
\* coroutine whose future is done or whose timeout is due is resumed first
ObsTick ==
    /\ \E c \in Callers : obs.calls[c].pc = "waiting"
    /\ \A c \in Callers :
          obs.calls[c].pc = "waiting" =>
             /\ obs.futures[obs.calls[c].request_id].state = "pending"
             /\ obs.calls[c].waited < TimeoutTicks
    /\ obs' = [obs EXCEPT !.calls =
                  [c \in Callers |->
                      IF @[c].pc = "waiting" THEN [@[c] EXCEPT !.waited = @ + 1]
                      ELSE @[c]]]
    /\ ObsFrame

ObsCallerNext == \E c \in Callers : ResponseArrives(c) \/ RequestTimesOut(c)

\* ------------------------------------------ OBSWebSocketClient: recording
\* how many times the activity code calls start_record or stop_record on one
\* client, the wait timeout of stop_record in clock ticks, and how many frames
\* OBS sends on one connection
MaxRecordCalls == 2
WaitTimeoutTicks == 1
MaxRecordFrames == 5

\* self._last_recording_path = None
NoPath == 0

RecordStateChanged(output_active, output_path) ==
    [kind |-> "event", ok |-> TRUE, outputActive |-> output_active,
     outputPath |-> output_path]

\* the RequestResponse to the request in flight: requestStatus.result and,
\* for GetRecordStatus, responseData.outputActive
RecResponse(ok, output_active) ==
    [kind |-> "response", ok |-> ok, outputActive |-> output_active,
     outputPath |-> NoPath]

NoRecCall == [op |-> "none", pc |-> "idle", inner |-> FALSE, waited |-> 0,
              status_active |-> FALSE, outcome |-> "none", result |-> NoPath]

\* OBSWebSocketClient.__init__ and an OBS not yet connected to
NoRec ==
    [connected |-> FALSE, record_stopped_event |-> FALSE,
     last_recording_path |-> NoPath, call |-> NoRecCall, calls |-> 0,
     sent |-> <<>>, request |-> "none", wire |-> <<>>, frames |-> 0,
     received |-> <<>>, cleared |-> FALSE,
     output |-> "stopped", file |-> 0]

RecFrame == UNCHANGED <<pipelineVars, sideVars, replay, pa, loop, obs, inact, gallery, browser>>

\* async with OBSWebSocketClient(...) as obs; OBS may still be recording
RecConnect ==
    /\ ~rec.connected
    /\ \E output \in {"stopped", "started"} :
          rec' = [rec EXCEPT !.connected = TRUE, !.output = output,
                             !.file = IF output = "started" THEN 1 ELSE 0]
    /\ RecFrame

\* send_request(request_type) up to its wait for the response
RecSend(r, request_type, pc) ==
    [r EXCEPT !.sent = Append(@, request_type), !.request = request_type,
              !.call.pc = pc]

\* status = await self.get_record_status()
StartRecord ==
    /\ rec.connected
    /\ rec.call.pc \in {"idle", "returned", "raised"}
    /\ rec.calls < MaxRecordCalls
    /\ rec' = RecSend([rec EXCEPT !.calls = @ + 1,
                                  !.call = [NoRecCall EXCEPT !.op = "start_record"]],
                      "GetRecordStatus", "status")
    /\ RecFrame

\* await self.send_request("StopRecord") of a stop_record called by the activity
StopRecord ==
    /\ rec.connected
    /\ rec.call.pc \in {"idle", "returned", "raised"}
    /\ rec.calls < MaxRecordCalls
    /\ rec' = RecSend([rec EXCEPT !.calls = @ + 1,
                                  !.call = [NoRecCall EXCEPT !.op = "stop_record"]],
                      "StopRecord", "stop_response")
    /\ RecFrame

CanSendFrame == rec.frames < MaxRecordFrames

\* OBS handles the request in flight and answers it
ObsHandlesRequest ==
    /\ rec.request # "none"
    /\ CanSendFrame
    /\ \/ /\ rec.request = "GetRecordStatus"
          /\ \E active \in BOOLEAN :
                /\ rec.output = "started" => active
                /\ rec.output = "stopped" => ~active
                /\ rec' = [rec EXCEPT !.request = "none", !.frames = @ + 1,
                                      !.wire = Append(@, RecResponse(TRUE, active))]
       \/ /\ rec.request = "StopRecord"
          /\ rec' = [rec EXCEPT !.request = "none", !.frames = @ + 1,
                                !.wire = Append(@, RecResponse(rec.output # "stopped", FALSE)),
                                !.output = IF @ = "started" THEN "stopping" ELSE @]
       \/ /\ rec.request = "StartRecord"
          /\ rec' = [rec EXCEPT !.request = "none", !.frames = @ + 1,
                                !.wire = Append(@, RecResponse(rec.output = "stopped", FALSE)),
                                !.output = IF @ = "stopped" THEN "started" ELSE @,
                                !.file = IF rec.output = "stopped" THEN @ + 1 ELSE @]
    /\ RecFrame

\* OBS announces that the output is stopping: outputActive false, no outputPath
ObsAnnouncesStopping ==
    /\ rec.output = "stopping"
    /\ CanSendFrame
    /\ RecordStateChanged(FALSE, NoPath) \notin {rec.wire[i] : i \in DOMAIN rec.wire}
    /\ rec' = [rec EXCEPT !.frames = @ + 1,
                          !.wire = Append(@, RecordStateChanged(FALSE, NoPath))]
    /\ RecFrame

\* OBS has written the file: outputActive false with the outputPath
ObsFinishesRecording ==
    /\ rec.output = "stopping"
    /\ CanSendFrame
    /\ rec' = [rec EXCEPT !.frames = @ + 1, !.output = "stopped",
                          !.wire = Append(@, RecordStateChanged(FALSE, rec.file))]
    /\ RecFrame

\* if not output_active: ... self._record_stopped_event.set() on every stop event
EndsWaitOnAnyStop(event) == ~event.outputActive

\* if not output_active: output_path = event_data.get("outputPath"); if output_path:
EndsWait(event) == ~event.outputActive /\ event.outputPath # NoPath

\* what the caller does with the response of send_request at its pc
AfterResponse(r, response) ==
    IF ~response.ok
    THEN [r EXCEPT !.call.pc = "raised", !.call.outcome = "OBSWebSocketError"]
    ELSE CASE r.call.pc = "status" ->
                 IF response.outputActive
                 THEN RecSend([r EXCEPT !.call.status_active = TRUE,
                                        !.call.inner = TRUE],
                              "StopRecord", "stop_response")
                 ELSE [r EXCEPT !.call.pc = "clear"]
           [] r.call.pc = "stop_response" ->
                 [r EXCEPT !.call.pc = "wait_event", !.call.waited = 0]
           [] OTHER ->
                 [r EXCEPT !.call.pc = "returned", !.call.outcome = "returned",
                           !.call.result = NoPath]

\* one iteration of _receive_messages: op 5 RecordStateChanged, or the op 7
\* frame that resolves the future of the request in flight
RecReceiveMessages ==
    /\ rec.wire # <<>>
    /\ LET message == Head(rec.wire)
           read == [rec EXCEPT !.wire = Tail(@)]
       IN  rec' = IF message.kind = "event"
                  THEN [read EXCEPT
                          !.received = Append(@, message),
                          !.record_stopped_event = IF EndsWait(message) THEN TRUE ELSE @,
                          !.last_recording_path =
                              IF EndsWait(message) THEN message.outputPath ELSE @]
                  ELSE AfterResponse(read, message)
    /\ RecFrame

\* self._record_stopped_event.clear(); self._last_recording_path = None;
\* await self.send_request("StartRecord")
ClearAndSendStartRecord ==
    /\ rec.call.pc = "clear"
    /\ rec' = RecSend([rec EXCEPT !.record_stopped_event = FALSE,
                                  !.last_recording_path = NoPath,
                                  !.received = <<>>, !.cleared = TRUE],
                      "StartRecord", "start_response")
    /\ RecFrame

\* the end of stop_record: to the activity, or back into start_record
StopRecordReturns(r, path) ==
    IF r.call.inner
    THEN [r EXCEPT !.call.pc = "clear", !.call.inner = FALSE, !.call.result = path]
    ELSE [r EXCEPT !.call.pc = "returned", !.call.outcome = "returned",
                   !.call.result = path]

\* wait_for(self._record_stopped_event.wait(), ...) returns:
\* return self._last_recording_path
WaitEnds ==
    /\ rec.call.pc = "wait_event"
    /\ rec.record_stopped_event
    /\ rec' = StopRecordReturns(rec, rec.last_recording_path)
    /\ RecFrame

\* except asyncio.TimeoutError: return None; the frames that arrived before
\* the timeout have been handled by the receive loop
WaitTimesOut ==
    /\ rec.call.pc = "wait_event"
    /\ ~rec.record_stopped_event
    /\ rec.wire = <<>>
    /\ rec.call.waited >= WaitTimeoutTicks
    /\ rec' = StopRecordReturns([rec EXCEPT !.call.outcome = "wait_timeout"], NoPath)
    /\ RecFrame

\* one tick of the event loop's clock while stop_record waits
RecTick ==
    /\ rec.call.pc = "wait_event"
    /\ ~rec.record_stopped_event
    /\ rec.wire = <<>>
    /\ rec.call.waited < WaitTimeoutTicks
    /\ rec' = [rec EXCEPT !.call.waited = @ + 1]
    /\ RecFrame

\* send_request raises OBSWebSocketError("... timed out"): no answer in time
RecRequestTimesOut ==
    /\ rec.call.pc \in {"status", "stop_response", "start_response"}
    /\ rec.request # "none"
    /\ rec' = [rec EXCEPT !.request = "none", !.call.pc = "raised",
                          !.call.outcome = "OBSWebSocketError"]
    /\ RecFrame

\* ----------------------------------- check_inactivity_and_stop_streaming
\* rows of the submissions table followed by the inactivity check
InactSubs == {1, 2}

\* args=[15]: inactivity_threshold_minutes
inactivity_threshold_minutes == 15

\* the minutes one tick of the wall clock stands for, and its last tick
MinutesPerTick == 5
MaxInactTicks == 4

\* MAX(completed_at) over no row: NULL
NoTime == 0 - 1

NoSeen == [processing_count |-> NoTime, last_completed |-> NoTime,
           minutes_since_completion |-> NoTime, is_streaming |-> FALSE,
           checks |-> 0]

NoInact ==
    [pc |-> "none", attempt |-> 1,
     rows |-> [s \in InactSubs |-> [status |-> "pending", completed_at |-> NoTime]],
     now |-> 0, streaming |-> TRUE, stop_stream_sent |-> 0,
     result |-> FALSE, seen |-> NoSeen, timer |-> 0]

InactFrame == UNCHANGED <<pipelineVars, sideVars, replay, pa, loop, obs, rec, gallery, browser>>

\* a CreateArtworkWorkflow run claims a submission
InactEnvProcessing ==
    /\ \E s \in InactSubs :
          /\ inact.rows[s].status = "pending"
          /\ inact' = [inact EXCEPT !.rows[s].status = "processing"]
    /\ InactFrame

\* update_submission_status(id, "completed", artwork_id): completed_at = now
InactEnvCompleted ==
    /\ \E s \in InactSubs :
          /\ inact.rows[s].status = "processing"
          /\ inact' = [inact EXCEPT !.rows[s] =
                         [status |-> "completed", completed_at |-> inact.now]]
    /\ InactFrame

\* the stream is started or stopped by someone else
InactEnvStreaming ==
    /\ inact.pc \in {"none", "stream_status"}
    /\ inact' = [inact EXCEPT !.streaming = ~@]
    /\ InactFrame

InactTick ==
    /\ inact.now < MaxInactTicks * MinutesPerTick
    /\ inact.pc \notin {"sleeping", "continue_as_new", "failed"}
    /\ inact' = [inact EXCEPT !.now = @ + MinutesPerTick]
    /\ InactFrame

\* streaming_stopped = await workflow.execute_activity(
\*     check_inactivity_and_stop_streaming, args=[15], ...)
InactInvoke ==
    /\ inact.pc = "none"
    /\ inact' = [inact EXCEPT !.pc = "count_processing"]
    /\ InactFrame

InactReturns(r, result) == [r EXCEPT !.pc = "returned", !.result = result]

\* SELECT COUNT(*) as count FROM submissions WHERE status = 'processing'
ProcessingCount(rows) == Cardinality({s \in InactSubs : rows[s].status = "processing"})

\* SELECT MAX(completed_at) as last_completed FROM submissions WHERE status = 'completed'
LastCompleted(rows) ==
    LET completed == {s \in InactSubs : rows[s].status = "completed"} IN
    IF completed = {} THEN NoTime
    ELSE rows[CHOOSE s \in completed :
                 \A o \in completed : rows[o].completed_at <= rows[s].completed_at].completed_at

\* if processing_count > 0: return False
CheckProcessingCount ==
    /\ inact.pc = "count_processing"
    /\ LET r == [inact EXCEPT !.seen.processing_count = ProcessingCount(inact.rows),
                              !.seen.checks = 1]
       IN  inact' = IF ProcessingCount(inact.rows) > 0
                    THEN InactReturns(r, FALSE)
                    ELSE [r EXCEPT !.pc = "last_completed"]
    /\ InactFrame

\* if minutes_since_completion <= inactivity_threshold_minutes: return False
BelowOrAtThreshold(minutes_since_completion) ==
    minutes_since_completion <= inactivity_threshold_minutes

\* if minutes_since_completion < inactivity_threshold_minutes: return False
BelowThreshold(minutes_since_completion) ==
    minutes_since_completion < inactivity_threshold_minutes

\* if not last_completed: return False; now = datetime.now(timezone.utc);
\* minutes_since_completion = (now - last_completed_time).total_seconds() / 60
CheckLastCompleted ==
    /\ inact.pc = "last_completed"
    /\ LET last_completed == LastCompleted(inact.rows)
           minutes_since_completion == inact.now - last_completed
           r == [inact EXCEPT !.seen.last_completed = last_completed,
                              !.seen.checks = 2]
       IN  inact' =
              IF last_completed = NoTime THEN InactReturns(r, FALSE)
              ELSE IF BelowThreshold(minutes_since_completion)
                   THEN InactReturns([r EXCEPT !.seen.minutes_since_completion =
                                                   minutes_since_completion], FALSE)
                   ELSE [r EXCEPT !.seen.minutes_since_completion = minutes_since_completion,
                                  !.pc = "stream_status"]
    /\ InactFrame

\* is_streaming = await obs.get_stream_status(); if not: return False
CheckStreamStatus ==
    /\ inact.pc = "stream_status"
    /\ LET r == [inact EXCEPT !.seen.is_streaming = inact.streaming, !.seen.checks = 3]
       IN  inact' = IF inact.streaming THEN [r EXCEPT !.pc = "stop_stream"]
                    ELSE InactReturns(r, FALSE)
    /\ InactFrame

\* await obs.stop_stream(); return True
StopStream ==
    /\ inact.pc = "stop_stream"
    /\ inact' = InactReturns([inact EXCEPT !.stop_stream_sent = @ + 1,
                                           !.streaming = FALSE], TRUE)
    /\ InactFrame

\* query_d1 or an OBS request raises; StopStream may have reached OBS
InactRaises ==
    /\ inact.pc \in {"count_processing", "last_completed", "stream_status", "stop_stream"}
    /\ \E reached \in BOOLEAN :
          /\ reached => inact.pc = "stop_stream"
          /\ inact' = [inact EXCEPT !.pc = "raised",
                                    !.stop_stream_sent = IF reached THEN @ + 1 ELSE @,
                                    !.streaming = IF reached THEN FALSE ELSE @]
    /\ InactFrame

\* retry_policy=RetryPolicy(maximum_attempts=3): the next attempt, or the run fails
InactRetry ==
    /\ inact.pc = "raised"
    /\ inact' = IF inact.attempt < ChkMaxAttempts
                THEN [inact EXCEPT !.pc = "count_processing", !.attempt = @ + 1,
                                   !.stop_stream_sent = 0, !.seen = NoSeen]
                ELSE [inact EXCEPT !.pc = "failed"]
    /\ InactFrame

\* if streaming_stopped: await workflow.sleep(timedelta(seconds=60));
\* workflow.continue_as_new(args=[cdp_url, continuous])
AfterInactivityCheck ==
    /\ inact.pc = "returned"
    /\ inact' = IF inact.result
                THEN [inact EXCEPT !.pc = "sleeping", !.timer = 60]
                ELSE [inact EXCEPT !.pc = "continue_as_new"]
    /\ InactFrame

SleepWindowEnds ==
    /\ inact.pc = "sleeping"
    /\ inact' = [inact EXCEPT !.pc = "continue_as_new"]
    /\ InactFrame

\* ------------------------------------------- append_to_gallery_metadata
\* artwork ids and titles the workflow passes, and how often the activity is
\* invoked
GalleryArtworkIds == {"kidpix-1", "kidpix-2"}
GalleryTitles == {"first", "second"}
MaxAppends == 4

\* GALLERY_METADATA_PATH does not exist
NoFile == [exists |-> FALSE, artworks |-> <<>>, lastUpdated |-> 0]

NoGallery == [file |-> NoFile, now |-> 0, invoked |-> <<>>]

GalleryFrame == UNCHANGED <<pipelineVars, sideVars, replay, pa, loop, obs, rec, inact, browser>>

\* json.load(f) of the file, or {"artworks": [], "lastUpdated": None}
LoadGalleryMetadata(file) ==
    IF file.exists THEN file ELSE [exists |-> TRUE, artworks |-> <<>>, lastUpdated |-> 0]

\* the check for an existing entry is left out
NeverAlreadyExists(gallery_metadata, artwork_id) == FALSE

\* existing_ids = {artwork["id"] for artwork in gallery_metadata["artworks"]};
\* artwork_id in existing_ids
AlreadyExists(gallery_metadata, artwork_id) ==
    \E i \in DOMAIN gallery_metadata.artworks :
       gallery_metadata.artworks[i].id = artwork_id

\* artwork_entry = {"id": metadata["id"], "imageUrl": image_url, "title": ...}
ArtworkEntry(image_url, metadata) ==
    [id |-> metadata.id, imageUrl |-> image_url, title |-> metadata.title]

\* the file after append_to_gallery_metadata(artwork_id, image_url, metadata) at time now
append_to_gallery_metadata(file, artwork_id, image_url, metadata, now) ==
    LET gallery_metadata == LoadGalleryMetadata(file) IN
    IF AlreadyExists(gallery_metadata, artwork_id) THEN file
    ELSE [gallery_metadata EXCEPT
            !.artworks = Append(@, ArtworkEntry(image_url, metadata)),
            !.lastUpdated = now]

\* metadata = {"id": artwork_id, "title": title, ...} and the image_url of
\* upload_image_to_r2 in ProcessArtworkWorkflow.run
InvokeAppend ==
    /\ Len(gallery.invoked) < MaxAppends
    /\ \E artwork_id \in GalleryArtworkIds, title \in GalleryTitles :
          gallery' = [gallery EXCEPT
             !.now = @ + 1,
             !.invoked = Append(@, artwork_id),
             !.file = append_to_gallery_metadata(
                         @, artwork_id, <<"https://r2/", artwork_id, ".png">>,
                         [id |-> artwork_id, title |-> title], gallery.now + 1)]
    /\ GalleryFrame

\* an attempt that raises before the file is written (open or json.load fails)
AppendAttemptRaises ==
    /\ Len(gallery.invoked) < MaxAppends
    /\ gallery.file.exists
    /\ gallery' = [gallery EXCEPT !.now = @ + 1, !.invoked = Append(@, "raised")]
    /\ GalleryFrame

\* ------------------- browser_session_activity: waits between heartbeats
\* times in seconds; a wait with a timeout ends when its element shows up or
\* raises at its timeout, page.wait_for_timeout lasts exactly its argument,
\* every other call of the attempt takes no time
OnboardingButtonWaitSeconds == 10   \* wait_for(state="hidden", timeout=10000)
SidePanelWaitSeconds == 2           \* page.wait_for_timeout(2000), twice
MessageInputWaitSeconds == 10       \* message_input.wait_for(state="visible", timeout=10000)
StopButtonWaitSeconds == 30         \* stop_button.wait_for(state="visible", timeout=30000)
PollWaitSeconds == 1                \* page.wait_for_timeout(1000)
LivestreamWaitSeconds == 4          \* page.wait_for_timeout(4000)

\* iterations of the "while True" loop followed in one attempt
MaxPolls == 2

NoBrowser == [pc |-> "none", waited |-> 0, idle |-> 0, polls |-> 0,
              attempt_no |-> 0, outcome |-> "none"]

BrowserFrame == UNCHANGED <<pipelineVars, sideVars, replay, pa, loop, obs, rec, inact, gallery>>

\* the awaits of the attempt that take time, in program order
WaitSeconds(pc) ==
    CASE pc = "onboarding_button" -> OnboardingButtonWaitSeconds
      [] pc = "side_panel_opens"  -> SidePanelWaitSeconds
      [] pc = "side_panel_shown"  -> SidePanelWaitSeconds
      [] pc = "message_input"     -> MessageInputWaitSeconds
      [] pc = "stop_button"       -> StopButtonWaitSeconds
      [] pc = "poll_wait"         -> PollWaitSeconds
      [] pc = "livestream_wait"   -> LivestreamWaitSeconds
      [] OTHER                    -> 0

\* locator.wait_for(..., timeout=...)
TimeoutWaits == {"onboarding_button", "message_input", "stop_button"}

\* page.wait_for_timeout(...)
FixedWaits == {"side_panel_opens", "side_panel_shown", "poll_wait", "livestream_wait"}

AfterWait(pc) ==
    CASE pc = "onboarding_button" -> "side_panel_opens"
      [] pc = "side_panel_opens"  -> "side_panel_shown"
      [] pc = "side_panel_shown"  -> "message_input"
      [] pc = "message_input"     -> "stop_button"
      [] pc = "stop_button"       -> "heartbeat"
      [] pc = "poll_wait"         -> "heartbeat"
      [] pc = "livestream_wait"   -> "return"

AttemptOpen == browser.pc # "none" /\ ~HeartbeatExpired(browser.idle)

AttemptEnds(outcome) ==
    [browser EXCEPT !.pc = "none", !.waited = 0, !.outcome = outcome]

\* the engine starts an attempt (RetryPolicy(maximum_attempts=2)); connect,
\* new_page, the D1 query and page.goto lead to the first wait
AttemptStarts ==
    /\ browser.pc = "none"
    /\ browser.outcome \in {"none", "raised", "stalled"}
    /\ browser.attempt_no < ArtMaxAttempts("browser_session")
    /\ browser' = [NoBrowser EXCEPT !.pc = "onboarding_button",
                                    !.attempt_no = browser.attempt_no + 1]
    /\ BrowserFrame

\* one second passes inside the current wait
WaitTick ==
    /\ AttemptOpen
    /\ browser.waited < WaitSeconds(browser.pc)
    /\ browser' = [browser EXCEPT !.waited = @ + 1, !.idle = @ + 1]
    /\ BrowserFrame

\* the awaited element shows up before the timeout of its wait
ElementShowsUp ==
    /\ AttemptOpen
    /\ browser.pc \in TimeoutWaits
    /\ browser.waited < WaitSeconds(browser.pc)
    /\ browser' = [browser EXCEPT !.pc = AfterWait(@), !.waited = 0]
    /\ BrowserFrame

\* the timeout of the wait is reached: the error is raised in the attempt
WaitRaises ==
    /\ AttemptOpen
    /\ browser.pc \in TimeoutWaits
    /\ browser.waited = WaitSeconds(browser.pc)
    /\ browser' = AttemptEnds("raised")
    /\ BrowserFrame

\* page.wait_for_timeout is over; after the first side-panel wait the panel
\* is among context.pages or RuntimeError is raised
FixedWaitEnds ==
    /\ AttemptOpen
    /\ browser.pc \in FixedWaits
    /\ browser.waited = WaitSeconds(browser.pc)
    /\ \/ browser' = [browser EXCEPT !.pc = AfterWait(@), !.waited = 0,
                         !.polls = IF browser.pc = "poll_wait" THEN @ + 1 ELSE @]
       \/ /\ browser.pc = "side_panel_opens"
          /\ browser' = AttemptEnds("raised")
    /\ BrowserFrame

\* lines 430-443: activity.heartbeat(), is_visible(), the 12-minute check
Heartbeat ==
    /\ AttemptOpen
    /\ browser.pc = "heartbeat"
    /\ \E is_visible \in BOOLEAN :
          /\ is_visible => browser.polls < MaxPolls
          /\ browser' = [browser EXCEPT !.idle = 0,
                            !.pc = IF is_visible THEN "poll_wait" ELSE "livestream_wait"]
    /\ BrowserFrame

\* lines 487-503: side panel closed, BrowserSessionResult returned
AttemptReturns ==
    /\ AttemptOpen
    /\ browser.pc = "return"
    /\ browser' = AttemptEnds("returned")
    /\ BrowserFrame

\* heartbeat_timeout: the engine fails the attempt that sent no heartbeat in time
DeclaredStalled ==
    /\ browser.pc # "none"
    /\ HeartbeatExpired(browser.idle)
    /\ browser' = AttemptEnds("stalled")
    /\ BrowserFrame

\* ------------------------------------------------------- specifications
EmptyTable == [s \in SubIds |-> NoRow]

InitCommon ==
    /\ d1 = EmptyTable
    /\ created = 0
    /\ obsRecording = FALSE
    /\ art = [r \in ArtIds |-> NoArtRun]
    /\ claimedBy = [s \in SubIds |-> {}]
    /\ chain = [c \in Checkers |-> FreshChain]
    /\ session = NoSession
    /\ detached = NoDetached
    /\ slots = NoSlots
    /\ backoff = NoBackoff
    /\ replay = NoReplay
    /\ pa = NoPa
    /\ loop = NoLoop
    /\ obs = NoObs
    /\ browser = NoBrowser
    /\ gallery = NoGallery
    /\ inact = NoInact
    /\ rec = NoRec

ArtNext(r) ==
    \/ UpdateStatusProcessing(r)
    \/ StartObsRecording(r)
    \/ BrowserSession(r)
    \/ StopObsRecording(r)
    \/ CompressVideo(r)
    \/ ExtractMetadata(r)
    \/ UploadImage(r)
    \/ UploadVideo(r)
    \/ InsertArtwork(r)
    \/ UpdateStatusCompleted(r)
    \/ SendEmail(r)
    \/ CleanupTab(r)
    \/ RetryArtRun(r)

CheckNext(c) ==
    \/ SwitchToMainScene(c)
    \/ EnsureObsStreaming(c)
    \/ VisitGallery(c)
    \/ CheckForPending(c)
    \/ ChildCompleted(c)
    \/ ChildFailed(c)
    \/ SwitchToScreensaver(c)
    \/ UpdateCountdownText(c)
    \/ CountdownSleep(c)
    \/ CheckInactivity(c)
    \/ SleepWindow(c)

\* the form's inputs: upvotes and e-mail differ between submissions
FormUpvotes(s) == s % (MaxUpvotes + 1)
FormEmail(s) == s % 2 = 1

FormNext == \E s \in SubIds : SubmitForm(s, FormUpvotes(s), FormEmail(s))

\* the scenario of one submitted form ("sub-1")
OneSub == {CHOOSE s \in SubIds : \A o \in SubIds : s <= o}

OneFormNext == \E s \in OneSub : SubmitForm(s, FormUpvotes(s), FormEmail(s))

\* one CheckSubmissionsWorkflow chain, any arguments, any failures
PollCheckers == {1}

InitPoll ==
    /\ InitCommon
    /\ \E cdp_url \in CdpUrls, continuous \in BOOLEAN :
          chk = [c \in Checkers |-> IF c \in PollCheckers
                                    THEN FreshCheckRun(cdp_url, continuous)
                                    ELSE IdleCheckRun]
    /\ faultsLeft = NoLimit

NextPoll ==
    \/ \E c \in PollCheckers : CheckNext(c)
    \/ \E r \in PollCheckers : ArtNext(r)
    \/ OneFormNext

SpecPoll == InitPoll /\ [][NextPoll]_vars

\* one CreateArtworkWorkflow at a time, any failures: started by the CLI
\* (no submission id) or by a non-continuous CheckSubmissionsWorkflow
InitPipeline ==
    /\ InitCommon
    /\ \E viaCli \in BOOLEAN :
          chk = [c \in Checkers |-> IF c \in PollCheckers /\ ~viaCli
                                    THEN FreshCheckRun(CHROME_CDP_URL, FALSE)
                                    ELSE IdleCheckRun]
    /\ faultsLeft = NoLimit

PipelineCheckNext(c) ==
    \/ SwitchToMainScene(c)
    \/ EnsureObsStreaming(c)
    \/ VisitGallery(c)
    \/ CheckForPending(c)
    \/ ChildCompleted(c)
    \/ ChildFailed(c)

NextPipeline ==
    \/ \E c \in PollCheckers : PipelineCheckNext(c)
    \/ \E r \in PollCheckers \cup {CliRun} : ArtNext(r)
    \/ FormNext
    \/ \E continuous \in BOOLEAN :
          /\ \A c \in Checkers : chk[c].status = "idle"
          /\ CliStart(continuous)

SpecPipeline == InitPipeline /\ [][NextPipeline]_vars

\* the engine and the worker keep executing what is scheduled
SpecPipelineLive == SpecPipeline /\ WF_vars(NextPipeline)

\* two non-continuous CheckSubmissionsWorkflow runs executing concurrently on
\* the same task queue, each awaiting its CreateArtworkWorkflow child
Init ==
    /\ InitCommon
    /\ chk = [c \in Checkers |-> FreshCheckRun(CHROME_CDP_URL, FALSE)]
    /\ faultsLeft = MaxFaults

Next ==
    \/ \E c \in Checkers : PipelineCheckNext(c)
    \/ \E r \in Checkers : ArtNext(r)
    \/ OneFormNext

Spec == Init /\ [][Next]_vars

\* one non-continuous CheckSubmissionsWorkflow and its child, the child's
\* browser session followed step by step under the engine's heartbeat clock
InitHeartbeat ==
    /\ InitCommon
    /\ chk = [c \in Checkers |-> IF c = HbRun THEN FreshCheckRun(CHROME_CDP_URL, FALSE)
                                               ELSE IdleCheckRun]
    /\ faultsLeft = NoLimit

NextHeartbeat ==
    \/ PipelineCheckNext(HbRun)
    \/ OneFormNext
    \/ UpdateStatusProcessing(HbRun)
    \/ StartObsRecording(HbRun)
    \/ BeginAttempt
    \/ Tick
    \/ FinishSetup
    \/ PollIteration
    \/ ReturnResult
    \/ RaiseInAttempt
    \/ HeartbeatTimeout
    \/ StopObsRecording(HbRun)
    \/ CompressVideo(HbRun)
    \/ ExtractMetadata(HbRun)
    \/ UploadImage(HbRun)
    \/ UploadVideo(HbRun)
    \/ InsertArtwork(HbRun)
    \/ UpdateStatusCompleted(HbRun)
    \/ SendEmail(HbRun)
    \/ CleanupTab(HbRun)
    \/ RetryArtRun(HbRun)

SpecHeartbeat == InitHeartbeat /\ [][NextHeartbeat]_vars

\* a parent run with its two background children, any failures
InitDetached ==
    /\ InitCommon
    /\ chk = [c \in Checkers |-> IdleCheckRun]
    /\ faultsLeft = NoLimit

NextDetached ==
    \/ ParentStarts
    \/ StartProcessVideo
    \/ StartDeployGallery
    \/ \E outcome \in {"completed", "cancelled"} : ParentCloses(outcome)
    \/ PvNext
    \/ DgNext

SpecDetached == InitDetached /\ [][NextDetached]_vars

\* the engine keeps scheduling the tasks of an open run
SpecDetachedLive == SpecDetached /\ WF_vars(PvNext) /\ WF_vars(DgNext)

\* NumWorkerRuns workflow runs, each issuing one activity at a time to the
\* backend worker
InitWorker ==
    /\ InitCommon
    /\ chk = [c \in Checkers |-> IdleCheckRun]
    /\ faultsLeft = NoLimit

NextWorker ==
    \E w \in WorkerRuns : ScheduleActivity(w) \/ WorkerTakesTask(w) \/ ActivityEnds(w)

SpecWorker == InitWorker /\ [][NextWorker]_vars

\* one CreateArtworkWorkflow at a time as in SpecPipeline, and a cancellation
\* request that may arrive at any suspension point of the run
NextCancel ==
    \/ \E c \in PollCheckers : PipelineCheckNext(c)
    \/ \E r \in PollCheckers \cup {CliRun} : ArtNext(r) \/ RequestCancel(r)
    \/ FormNext
    \/ \E continuous \in BOOLEAN :
          /\ \A c \in Checkers : chk[c].status = "idle"
          /\ CliStart(continuous)

SpecCancel == InitPipeline /\ [][NextCancel]_vars

\* the two queries for the next submission, on every table the form can
\* produce: one CreateArtworkWorkflow at a time, started by the CLI or by a
\* non-continuous CheckSubmissionsWorkflow, no activity failure
AnyFormNext ==
    \E s \in SubIds, upvotes \in 0..MaxUpvotes : SubmitForm(s, upvotes, FormEmail(s))

InitSelect ==
    /\ InitCommon
    /\ \E viaCli \in BOOLEAN :
          chk = [c \in Checkers |-> IF c \in PollCheckers /\ ~viaCli
                                    THEN FreshCheckRun(CHROME_CDP_URL, FALSE)
                                    ELSE IdleCheckRun]
    /\ faultsLeft = 0

SelectArtNext(r) ==
    \/ UpdateStatusProcessing(r)
    \/ StartObsRecording(r)
    \/ BrowserSession(r)
    \/ StopObsRecording(r)
    \/ CompressVideo(r)
    \/ ExtractMetadata(r)
    \/ UploadImage(r)
    \/ UploadVideo(r)
    \/ InsertArtwork(r)
    \/ UpdateStatusCompleted(r)
    \/ SendEmail(r)
    \/ CleanupTab(r)

NextSelect ==
    \/ AnyFormNext
    \/ \E c \in PollCheckers :
          \/ SwitchToMainScene(c)
          \/ EnsureObsStreaming(c)
          \/ VisitGallery(c)
          \/ CheckForPending(c)
          \/ ChildCompleted(c)
    \/ \E r \in PollCheckers \cup {CliRun} : SelectArtNext(r)
    \/ /\ \A c \in Checkers : chk[c].status = "idle"
       /\ CliStart(FALSE)

SpecSelect == InitSelect /\ [][NextSelect]_vars

\* the completion-polling loop of one attempt of browser_session_activity
InitPollLoop ==
    /\ InitCommon
    /\ chk = [c \in Checkers |-> IdleCheckRun]
    /\ faultsLeft = NoLimit

NextPollLoop == EnterPollLoop \/ LoopNext

SpecPollLoop == InitPollLoop /\ [][NextPollLoop]_vars

\* the activity's coroutine keeps being run by the worker's event loop
SpecPollLoopLive == SpecPollLoop /\ WF_vars(LoopNext)

\* one OBSWebSocketClient shared by the coroutines of a worker
InitObs ==
    /\ InitCommon
    /\ chk = [c \in Checkers |-> IdleCheckRun]
    /\ faultsLeft = NoLimit

NextObs ==
    \/ Connect
    \/ Disconnect
    \/ ConnectionCloses
    \/ ServerResponds
    \/ ServerRepeats
    \/ ServerSendsBadFrame
    \/ ReceiveMessages
    \/ ReceiveLoopEnds
    \/ \E c \in Callers : SendRequest(c)
    \/ \E c \in Callers : ResponseArrives(c)
    \/ \E c \in Callers : RequestTimesOut(c)
    \/ ObsTick

SpecObs == InitObs /\ [][NextObs]_vars

\* the event loop keeps running the waiting coroutines and its clock
SpecObsLive == SpecObs /\ WF_vars(ObsCallerNext) /\ WF_vars(ObsTick)

\* one client used for start_record and stop_record, and the recorder of OBS
InitRecord ==
    /\ InitCommon
    /\ chk = [c \in Checkers |-> IdleCheckRun]
    /\ faultsLeft = NoLimit

NextRecord ==
    \/ RecConnect
    \/ StartRecord
    \/ StopRecord
    \/ ObsHandlesRequest
    \/ ObsAnnouncesStopping
    \/ ObsFinishesRecording
    \/ RecReceiveMessages
    \/ ClearAndSendStartRecord
    \/ WaitEnds
    \/ WaitTimesOut
    \/ RecTick
    \/ RecRequestTimesOut

SpecRecord == InitRecord /\ [][NextRecord]_vars

\* the inactivity check at the end of an idle cycle of CheckSubmissionsWorkflow
InitInactivity ==
    /\ InitCommon
    /\ chk = [c \in Checkers |-> IdleCheckRun]
    /\ faultsLeft = NoLimit

NextInactivity ==
    \/ InactEnvProcessing
    \/ InactEnvCompleted
    \/ InactEnvStreaming
    \/ InactTick
    \/ InactInvoke
    \/ CheckProcessingCount
    \/ CheckLastCompleted
    \/ CheckStreamStatus
    \/ StopStream
    \/ InactRaises
    \/ InactRetry
    \/ AfterInactivityCheck
    \/ SleepWindowEnds

SpecInactivity == InitInactivity /\ [][NextInactivity]_vars

\* invocations and retries of append_to_gallery_metadata on one worker
InitGallery ==
    /\ InitCommon
    /\ chk = [c \in Checkers |-> IdleCheckRun]
    /\ faultsLeft = NoLimit

NextGallery == InvokeAppend \/ AppendAttemptRaises

SpecGallery == InitGallery /\ [][NextGallery]_vars

\* one browser_session_activity call, followed wait by wait
InitBrowser ==
    /\ InitCommon
    /\ chk = [c \in Checkers |-> IdleCheckRun]
    /\ faultsLeft = NoLimit

NextBrowser ==
    \/ AttemptStarts
    \/ WaitTick
    \/ ElementShowsUp
    \/ WaitRaises
    \/ FixedWaitEnds
    \/ Heartbeat
    \/ AttemptReturns
    \/ DeclaredStalled

SpecBrowser == InitBrowser /\ [][NextBrowser]_vars

\* ProcessArtworkWorkflow runs started by scripts/test_workflow.py
InitArtworkWorker ==
    /\ InitCommon
    /\ chk = [c \in Checkers |-> IdleCheckRun]
    /\ faultsLeft = NoLimit

NextArtworkWorker ==
    \/ StartProcessArtwork
    \/ PaExtractArtworkMetadata
    \/ PaUploadImageToR2
    \/ PaUploadMetadataToR2
    \/ PaAppendToGalleryMetadata
    \/ PaRebuildStaticSite
    \/ PaDeployToCloudflare

SpecArtworkWorker == InitArtworkWorker /\ [][NextArtworkWorker]_vars

\* one run of CheckSubmissionsWorkflow or CreateArtworkWorkflow executed
\* twice over the same history
InitReplay ==
    /\ InitCommon
    /\ chk = [c \in Checkers |-> IdleCheckRun]
    /\ faultsLeft = NoLimit

NextReplay ==
    \/ StartExecutions
    \/ ActivityTaskCompleted
    \/ ActivityTaskFailed
    \/ ChildWorkflowCompleted
    \/ ChildWorkflowFailed
    \/ TimerFired

SpecReplay == InitReplay /\ [][NextReplay]_vars

\* one CreateArtworkWorkflow invocation, started by the CLI or by a
\* CheckSubmissionsWorkflow in either mode, its failed runs retried by the
\* engine with the backoff of its retry policy
InitRetry ==
    /\ d1 = EmptyTable
    /\ created = 0
    /\ obsRecording = FALSE
    /\ art = [r \in ArtIds |-> NoArtRun]
    /\ claimedBy = [s \in SubIds |-> {}]
    /\ chain = [c \in Checkers |-> FreshChain]
    /\ session = NoSession
    /\ detached = NoDetached
    /\ slots = NoSlots
    /\ replay = NoReplay
    /\ pa = NoPa
    /\ loop = NoLoop
    /\ obs = NoObs
    /\ browser = NoBrowser
    /\ gallery = NoGallery
    /\ inact = NoInact
    /\ rec = NoRec
    /\ \E initial \in InitialIntervals, maximum \in MaximumIntervals :
          backoff = [NoBackoff EXCEPT !.defaults = [initial_interval |-> initial,
                                                    maximum_interval |-> maximum]]
    /\ \E viaCli, continuous \in BOOLEAN :
          chk = [c \in Checkers |-> IF c \in PollCheckers /\ ~viaCli
                                    THEN FreshCheckRun(CHROME_CDP_URL, continuous)
                                    ELSE IdleCheckRun]
    /\ faultsLeft = NoLimit

RetryArtNext(r) ==
    \/ UpdateStatusProcessing(r)
    \/ StartObsRecording(r)
    \/ BrowserSession(r)
    \/ StopObsRecording(r)
    \/ CompressVideo(r)
    \/ ExtractMetadata(r)
    \/ UploadImage(r)
    \/ UploadVideo(r)
    \/ InsertArtwork(r)
    \/ UpdateStatusCompleted(r)
    \/ SendEmail(r)
    \/ CleanupTab(r)
    \/ RetryWithBackoff(r)

NextRetry ==
    \/ \E c \in PollCheckers : PipelineCheckNext(c)
    \/ \E r \in PollCheckers \cup {CliRun} : RetryArtNext(r)
    \/ OneFormNext
    \/ \E continuous \in BOOLEAN :
          /\ \A c \in Checkers : chk[c].status = "idle"
          /\ CliStart(continuous)

SpecRetry == InitRetry /\ [][NextRetry]_vars


\* ================================================================ claims
Count(seq, x) == Cardinality({i \in DOMAIN seq : seq[i] = x})

Mentions(run, name) == \E i \in DOMAIN run.trace : run.trace[i] = name

\* C1: of the concurrent executions that found the same pending submission,
\* at most one has its update_submission_status(id, "processing") succeed;
\* the others are rejected as already claimed.
C1_AtMostOneClaimSucceeds ==
    \A s \in SubIds : Cardinality(claimedBy[s]) <= 1

\* C2: in every CreateArtworkWorkflow run that processes a submission, with
\* or without a submission_id argument, that submission was marked
\* "processing" by the run's update_submission_status activity before
\* browser_session_activity started on it.
C2_ClaimedBeforeBrowserSession ==
    \A r \in ArtIds :
        art[r].browser_done => art[r].claimed = art[r].browser_sub

\* C3: over all CheckSubmissionsWorkflow runs, at most one child
\* CreateArtworkWorkflow is started with any given submission id.
Dispatches(s) ==
    {d \in Checkers \X (1..MaxRuns) :
        d[2] \in DOMAIN chain[d[1]].dispatched /\ chain[d[1]].dispatched[d[2]] = s}

C3_AtMostOneDispatchPerSubmission ==
    \A s \in SubIds : Cardinality(Dispatches(s)) <= 1

\* C4: the history of every CheckSubmissionsWorkflow run, live or ended by
\* continue-as-new, holds at most the events of one check cycle (4 checks,
\* 1 scene switch, 60 countdown updates and 60 timers, 1 inactivity check,
\* 1 extra timer), however many runs preceded it.
CycleHistoryBound == 4 + 1 + CountdownSeconds + CountdownSeconds + 1 + 1

C4_HistoryBounded ==
    \A c \in Checkers :
        /\ chk[c].history <= CycleHistoryBound
        /\ chain[c].last_history <= CycleHistoryBound

C4_Witness ==
    /\ chain[1].runs >= 4
    /\ chain[1].cycles >= 2
    /\ chain[1].last_history = CycleHistoryBound

\* C5: in continuous mode, when the check returns None three times and then
\* a submission, the chain has performed exactly 3 countdown cycles, each of
\* the three runs ending by continue-as-new, has dispatched exactly one child,
\* with args [cdp_url, False, that submission's id], and the fourth run ends
\* by continue-as-new and returns no value.
PollScenario(c) ==
    /\ chk[c].continuous
    /\ Len(chain[c].checkLog) = 4
    /\ \A i \in 1..3 : chain[c].checkLog[i] = NoSub
    /\ chain[c].checkLog[4] # NoSub

C5_EndToEndPollLoop ==
    \A c \in Checkers :
        PollScenario(c) =>
            /\ chain[c].cycles = 3
            /\ chain[c].dispatched = <<chain[c].checkLog[4]>>
            /\ art[c].submission_id = chain[c].checkLog[4]
            /\ art[c].cdp_url = chk[c].cdp_url /\ ~art[c].continuous
            /\ \A i \in DOMAIN chain[c].outcomes :
                  i <= 4 => chain[c].outcomes[i] = "continued_as_new"
            /\ Len(chain[c].outcomes) >= 3
            /\ chk[c].result = "none"

C5_Witness ==
    /\ PollScenario(1)
    /\ Len(chain[1].outcomes) = 4
    /\ chain[1].outcomes[4] = "continued_as_new"

\* C6: in continuous mode no run of the chain completes with a return value:
\* every ended run was continued as new or failed; the dict is returned only
\* when continuous is False.
C6_NoReturnInContinuousMode ==
    \A c \in Checkers :
        /\ chk[c].continuous =>
              /\ chk[c].result = "none"
              /\ chk[c].status # "completed"
              /\ \A i \in DOMAIN chain[c].outcomes : chain[c].outcomes[i] # "completed"
        /\ chk[c].result = "dict" => ~chk[c].continuous

C6_Witness ==
    /\ chk[1].continuous
    /\ chain[1].dispatched # <<>>
    /\ chain[1].cycles >= 1
    /\ Len(chain[1].outcomes) >= 2
    /\ \A i \in DOMAIN chain[1].outcomes : chain[1].outcomes[i] = "continued_as_new"

\* C7: a continue-as-new step hands the successor run exactly the
\* predecessor's cdp_url and continuous, with empty history and every
\* loop-local value reset; no step of a chain changes cdp_url or continuous.
C7_Successor(c) ==
    chain'[c].runs = chain[c].runs + 1 =>
        /\ chk'[c].history = 0
        /\ chk'[c].pc = "switch_main"
        /\ chk'[c].submission = NoSub
        /\ chk'[c].seconds_remaining = 0
        /\ chk'[c].streaming_stopped = FALSE
        /\ chk'[c].result = "none"

C7_ContinueAsNewCarriesArgsOnly ==
    [][\A c \in Checkers :
          /\ chk'[c].cdp_url = chk[c].cdp_url
          /\ chk'[c].continuous = chk[c].continuous
          /\ C7_Successor(c)]_vars

C7_Witness ==
    /\ chain[1].runs >= 3
    /\ chain[1].dispatched # <<>>
    /\ chain[1].cycles >= 1
    /\ chk[1].history = 0
    /\ chk[1].cdp_url = "ws://b"

\* C8: in a run where start_obs_recording failed on every attempt, the trace
\* holds browser_session_activity, extract_artwork_metadata,
\* upload_image_to_r2, insert_artwork_to_d1 and cleanup_tab_activity in that
\* order once the run completed, and never stop_obs_recording, compress_video
\* or upload_video_to_r2.
MandatoryInOrder(run) ==
    \A i, j \in DOMAIN run.trace :
        /\ run.trace[i] = "browser_session_activity"
              /\ run.trace[j] \in {"extract_artwork_metadata", "upload_image_to_r2",
                                   "insert_artwork_to_d1", "cleanup_tab_activity"} => i < j
        /\ run.trace[i] = "extract_artwork_metadata"
              /\ run.trace[j] \in {"upload_image_to_r2", "insert_artwork_to_d1",
                                   "cleanup_tab_activity"} => i < j
        /\ run.trace[i] = "upload_image_to_r2"
              /\ run.trace[j] \in {"insert_artwork_to_d1", "cleanup_tab_activity"} => i < j
        /\ run.trace[i] = "insert_artwork_to_d1"
              /\ run.trace[j] = "cleanup_tab_activity" => i < j

C8_SalvageTrace ==
    \A r \in ArtIds :
        "start_obs_recording" \in art[r].failedOptional =>
            /\ art[r].status = "completed" =>
                  /\ \A n \in {"browser_session_activity", "extract_artwork_metadata",
                               "upload_image_to_r2", "insert_artwork_to_d1",
                               "cleanup_tab_activity"} : Count(art[r].trace, n) = 1
                  /\ MandatoryInOrder(art[r])
            /\ ~Mentions(art[r], "stop_obs_recording")
            /\ ~Mentions(art[r], "compress_video")
            /\ ~Mentions(art[r], "upload_video_to_r2")

C10_BestEffortVideoNone ==
    \A r \in ArtIds :
        /\ art[r].failedAt \notin OptionalSteps
        /\ art[r].status = "completed" /\ art[r].failedOptional # {} =>
              art[r].inserted = "null"

\* C11: no failure of the send_email_notification step, neither an error
\* inside the send nor the attempts timing out, ends the run Failed: a run
\* never fails at send_email_notification, and every ended run that invoked
\* it has gone on to invoke cleanup_tab_activity.
C11_NotificationBestEffort ==
    \A r \in ArtIds :
        /\ art[r].failedAt # "send_email"
        /\ Mentions(art[r], "send_email_notification") /\ art[r].status # "running" =>
              Mentions(art[r], "cleanup_tab_activity")

\* C12: a mandatory activity that fails on its last allowed attempt ends the
\* run Failed; a run that failed at a mandatory activity invoked nothing after
\* it; and a submission is marked "completed" only by a run whose
\* upload_image_to_r2 and insert_artwork_to_d1 succeeded before.
MandatoryPcs ==
    {"update_processing", "browser_session", "extract_metadata", "upload_image",
     "insert_d1", "update_completed", "cleanup_tab"}

C12_FailedAtLastInvoked(run) ==
    run.status = "failed" /\ run.failedAt \in MandatoryPcs =>
        /\ run.pc = run.failedAt
        /\ run.attempt = ArtMaxAttempts(run.failedAt)
        /\ run.trace[Len(run.trace)] = ActivityName(run.failedAt)

C12_LastAttemptFails(r) ==
    /\ art[r].status = "running" /\ art[r].pc \in MandatoryPcs
    /\ art[r].attempt = ArtMaxAttempts(art[r].pc)
    /\ art'[r] # art[r] /\ art'[r].pc = art[r].pc
    /\ art'[r].run_attempt = art[r].run_attempt

C12_MarkedCompleted(s) ==
    d1[s].status # "completed" /\ d1'[s].status = "completed"

C12_MandatoryFailureAborts ==
    /\ [](\A r \in ArtIds : C12_FailedAtLastInvoked(art[r]))
    /\ [][/\ \A r \in ArtIds : C12_LastAttemptFails(r) => art'[r].status = "failed"
          /\ \A s \in SubIds : C12_MarkedCompleted(s) =>
                 \E r \in ArtIds :
                    /\ art[r].pc = "update_completed" /\ art[r].browser_sub = s
                    /\ art[r].image_url /\ art[r].inserted # "none"
                    /\ Mentions(art[r], "upload_image_to_r2")
                    /\ Mentions(art[r], "insert_artwork_to_d1")]_vars

C12_Witness ==
    \E r \in ArtIds :
        /\ art[r].status = "failed" /\ art[r].failedAt = "insert_d1"
        /\ art[r].image_url
        /\ \E s \in SubIds \ {art[r].browser_sub} : d1[s].status = "completed"

C14_NoSubmissionNotRetried ==
    \A r \in ArtIds :
        art[r].last_attempt.raised = "ValueError" => art[r].status = "failed"

\* C15: an open attempt of browser_session_activity whose last heartbeat (or
\* start) is more than 30 s old can only be failed by the engine: it neither
\* returns nor raises, the failure is a timeout, and it is one failed attempt
\* of the at most 2: retried if it was the first, the run Failed if the second.
C15_Stalled == session.phase # "none" /\ session.idle > 30

C15_FailedAsOneAttempt ==
    /\ session'.phase = "none"
    /\ session'.timeouts = session.timeouts + 1
    /\ art'[HbRun].last_attempt.raised = "none"
    /\ art'[HbRun].last_attempt.propagated = "TimeoutError"
    /\ ~art'[HbRun].browser_done
    /\ IF art[HbRun].attempt < 2
       THEN /\ art'[HbRun].status = "running" /\ art'[HbRun].pc = "browser_session"
            /\ art'[HbRun].attempt = art[HbRun].attempt + 1
       ELSE /\ art'[HbRun].status = "failed" /\ art'[HbRun].failedAt = "browser_session"

C15_HeartbeatTimeout ==
    /\ [](session.idle <= 30 + 1)
    /\ [][C15_Stalled /\ (session' # session \/ art'[HbRun] # art[HbRun])
            => C15_FailedAsOneAttempt]_vars

C15_Witness ==
    /\ art[HbRun].status = "failed"
    /\ art[HbRun].failedAt = "browser_session"
    /\ session.timeouts = 2

\* C16: the delay the engine sleeps before the nth retry of a run is
\* min(I * C^(n-1), M) for the run's RetryPolicy(I, C, M); for the continuous
\* policy of the CLI the delays are 10, 20, 40, 80, 160, 180, 180, ... seconds,
\* never more than 180; and an attempt counter goes back to 1 only when a new
\* invocation (of the activity, or of the workflow) is created.
RECURSIVE Pow(_, _)
Pow(b, e) == IF e = 0 THEN 1 ELSE b * Pow(b, e - 1)

Min(a, b) == IF a < b THEN a ELSE b

C16_Expected(policy, n) ==
    Min(policy.initial_interval * Pow(policy.backoff_coefficient, n - 1),
        policy.maximum_interval)

C16_CliDelays(n) ==
    IF n <= 5 THEN <<10, 20, 40, 80, 160>>[n] ELSE 180

C16_DelaysOf(r) ==
    /\ Len(backoff.delays) = art[r].run_attempt - 1
    /\ \A n \in DOMAIN backoff.delays :
          /\ backoff.delays[n] = C16_Expected(PolicyOf(r), n)
          /\ r = CliRun => backoff.delays[n] = C16_CliDelays(n) /\ backoff.delays[n] <= 180

C16_CountersReset(r) ==
    /\ art'[r].run_attempt # art[r].run_attempt =>
          \/ art'[r].run_attempt = art[r].run_attempt + 1
          \/ art'[r].run_attempt = 1 /\ art[r].status # "failed"
    /\ art'[r].attempt < art[r].attempt =>
          /\ art'[r].attempt = 1
          /\ art'[r].pc # art[r].pc \/ art'[r].run_attempt # art[r].run_attempt

C16_RetryBackoff ==
    /\ [](\A r \in ArtIds : art[r].status # "none" => C16_DelaysOf(r))
    /\ [][\A r \in ArtIds : C16_CountersReset(r)]_vars

C16_Witness ==
    /\ art[CliRun].run_attempt = 8
    /\ backoff.delays[5] = 160
    /\ backoff.delays[6] = 180
    /\ backoff.delays[7] = 180

\* C17: a run started with maximum_attempts = 0 is retried after every failed
\* attempt, however many came before; a child started with maximum_attempts = 3
\* has at most 3 attempts and after the third failure is not retried, the
\* parent run ending Failed; a parent in continuous mode never fails on its
\* child; with maximum_attempts = 1 there is exactly one attempt.
C17_RunAttempts(r) ==
    /\ art[r].max_attempts = 3 =>
          /\ art[r].run_attempt <= 3
          /\ art[r].status = "failed" /\ art[r].run_attempt = 3 => ~ENABLED RetryWithBackoff(r)
    /\ art[r].max_attempts = 1 =>
          /\ art[r].run_attempt = 1
          /\ art[r].status = "failed" => ~ENABLED RetryWithBackoff(r)
    /\ art[r].max_attempts = 0 /\ art[r].status = "failed"
          /\ art[r].run_attempt < MaxBackoffAttempts => ENABLED RetryWithBackoff(r)

C17_ParentOfChild(c) ==
    /\ chk[c].pc = "await_child" =>
          art[c].max_attempts = IF chk[c].continuous THEN 0 ELSE 3
    /\ chk[c].pc = "await_child" /\ chk[c].status = "failed" =>
          /\ ~chk[c].continuous
          /\ art[c].status = "failed" /\ art[c].run_attempt = 3

C17_ZeroMeansForever ==
    /\ \A r \in ArtIds : art[r].status # "none" => C17_RunAttempts(r)
    /\ \A c \in PollCheckers : C17_ParentOfChild(c)

C17_Witness ==
    /\ chk[1].continuous
    /\ chk[1].pc = "await_child"
    /\ art[1].max_attempts = 0
    /\ art[1].run_attempt > 3 + 1
    /\ art[1].status = "running"

\* C18: a background child started with the ABANDON policy is left untouched
\* when its parent run completes or is cancelled, is never cancelled or
\* terminated from the parent, and once running it reaches a terminal state
\* of its own, also when the parent closed first.
C18_ParentCloseLeavesChildren ==
    detached'.parent # detached.parent /\ detached.parent = "running" =>
        /\ detached'.pv = detached.pv
        /\ detached'.dg = detached.dg

C19_CancelEndsRun ==
    \A r \in ArtIds :
        art[r].cancel_requested =>
            /\ art[r].status = "cancelled"
            /\ art[r].trace[Len(art[r].trace)] = ActivityName(art[r].pc)

\* C20: at most 4 activity tasks execute on the worker at any moment, however
\* many runs have tasks queued; a queued task is taken only when fewer than 4
\* are executing.
C20_TakenWhenSlotFree ==
    \A w \in WorkerRuns :
        slots[w] = "queued" /\ slots'[w] = "executing" => Cardinality(Executing) < 4

C20_ConcurrencyCap ==
    /\ [](Cardinality(Executing) <= 4)
    /\ [][C20_TakenWhenSlotFree]_vars

C20_Witness ==
    /\ Cardinality(Executing) = 4
    /\ Cardinality({w \in WorkerRuns : slots[w] = "queued"}) >= 2

\* C21: two executions of a CheckSubmissionsWorkflow or CreateArtworkWorkflow
\* run with the same arguments, fed the same history of activity, child and
\* timer results, issue the same sequence of commands with the same
\* arguments, whatever the environment of the process that executes them.
C21_SameHistorySameCommands ==
    replay.status = "open" => replay.ex[1].issued = replay.ex[2].issued

\* C22: a run started through the CLI with --continuous is followed, once it
\* has completed, by a further run scheduled by the program itself; a run
\* started without --continuous is the only run made.
C22_ContinuousSchedulesNext ==
    /\ art[CliRun].status = "completed" /\ art[CliRun].continuous
          => ENABLED ArtNext(CliRun)
    /\ art[CliRun].status # "none" /\ ~art[CliRun].continuous
          => art[CliRun].run_attempt = 1

\* C23: ProcessVideoWorkflow never ends Failed when compress_video,
\* upload_video_to_r2 or update_artwork_video_url has failed for good: every
\* started run completes with its result dict, and success is True exactly
\* when the three activities succeeded, in the order compress, upload, update.
C23_AllThreeInOrder ==
    <<"compress_video", "upload_video_to_r2", "update_artwork_video_url">>

C23_ResultOfRun ==
    /\ detached.pv.status # "failed"
    /\ detached.pv.status = "completed"
          => (detached.pv.success <=> detached.pv.succeeded = C23_AllThreeInOrder)
    /\ \A n \in 0..Len(detached.pv.succeeded) :
          SubSeq(detached.pv.succeeded, 1, n) = SubSeq(C23_AllThreeInOrder, 1, n)

C24_FailedMeansNoVideoUrl ==
    detached.pv.status = "completed" /\ ~detached.pv.success => ~detached.pv.video_url

\* C25: a ProcessArtworkWorkflow run executed by the worker that registers
\* it does not fail unless one of its activities raised; it invokes
\* extract_artwork_metadata, upload_image_to_r2, upload_metadata_to_r2,
\* append_to_gallery_metadata, rebuild_static_site and deploy_to_cloudflare
\* once each and in that order, and returns <gallery_url>/artwork/<artwork_id>.
C25_RunsToCompletion ==
    /\ pa.status = "failed" /\ pa.polling = {"worker"} => pa.env_failures
    /\ \A n \in 0..Len(pa.trace) : SubSeq(pa.trace, 1, n) = SubSeq(PaSteps, 1, n)
    /\ pa.status = "completed"
          => /\ pa.trace = PaSteps
             /\ pa.artwork_url = <<pa.gallery_url, "/artwork/", pa.artwork_id>>

\* C26: on each worker process that is running, every activity type and child
\* workflow type that a workflow registered on the worker can issue is
\* registered on that worker, and the activity a run on the worker of
\* worker/main.py is waiting for is one that this worker can execute.
C26_RegistryCoversIssued(w) ==
    \A wf \in RegisteredWorkflows(w) :
        /\ IssuedActivities(wf) \subseteq RegisteredActivities(w)
        /\ IssuedChildren(wf) \subseteq RegisteredWorkflows(w)

C26_IssuedTaskIsExecutable ==
    /\ \A w \in pa.polling : C26_RegistryCoversIssued(w)
    /\ pa.status = "running" /\ pa.polling = {"worker"}
          => PaSteps[pa.step] \in RegisteredActivities("worker")

\* C27: in every iteration of the completion-polling loop one heartbeat is
\* emitted before the stop button is looked at; the loop goes on only while
\* no more than 12 minutes have elapsed since its start, raises TimeoutError
\* in the first iteration in which more have elapsed, stays below the
\* 15 minutes of start_to_close counted from its start, and always ends:
\* by the break or by the TimeoutError.
C27_LoopActive == loop.phase \in {"top", "heartbeat_sent", "still_visible", "waiting"}

C27_LoopState ==
    /\ loop.phase \in {"heartbeat_sent", "still_visible", "waiting"} => loop.heartbeats = 1
    /\ loop.phase = "top" => loop.heartbeats = 0
    /\ loop.phase = "waiting" => ElapsedMs <= timeout_ms
    /\ loop.phase = "raised"
          => /\ loop.timed_out_at > timeout_ms
             /\ \E latency \in IsVisibleLatenciesMs :
                   loop.timed_out_at - PollWaitMs - latency <= timeout_ms
    /\ C27_LoopActive \/ loop.phase = "raised" => ElapsedMs < StartToCloseMs

C27_PollingLoopBounded ==
    /\ []C27_LoopState
    /\ C27_LoopActive ~> loop.phase \in {"exited", "raised"}

\* the loop has raised TimeoutError after more than 12 minutes of polling
C27_Witness == loop.phase = "raised" /\ loop.timed_out_at > timeout_ms

\* C28: check_for_pending_submissions returns None exactly when no submission
\* is pending; otherwise it returns the pending submission with the greatest
\* upvote_count, the earliest created_at among those with equal upvote_count;
\* get_next_submission selects the same submission from the same table.
C28_Beats(t, a, b) ==
    \/ t[a].upvote_count > t[b].upvote_count
    \/ t[a].upvote_count = t[b].upvote_count /\ t[a].created_at < t[b].created_at

C28_IsNext(t, found) ==
    LET pending == {s \in SubIds : t[s].status = "pending"} IN
    /\ found = NoSub <=> pending = {}
    /\ found # NoSub
          => found \in pending /\ \A o \in pending \ {found} : C28_Beats(t, found, o)

C28_SameSelection ==
    /\ C28_IsNext(d1, check_for_pending_submissions(d1))
    /\ get_next_submission(d1) = check_for_pending_submissions(d1)

C28_ReturnedByActivity ==
    /\ \A c \in PollCheckers :
          chk[c].pc = "check" /\ chk'[c].pc # "check"
             => C28_IsNext(d1, chk'[c].submission)
    /\ art[CliRun].pc = "browser_session" /\ art'[CliRun].pc = "stop_obs_recording"
          => C28_IsNext(d1, art'[CliRun].browser_sub)

C29_OwnResponse ==
    /\ \A i \in RequestIds :
          obs.futures[i].state = "done" => obs.futures[i].result.requestId = i
    /\ \A c \in Callers :
          obs.calls[c].pc = "returned" => obs.calls[c].returned = obs.calls[c].request_id
    /\ obs.readers \subseteq {"_receive_messages"}

C29_FrameResolvesItsRequest ==
    obs'.websocket = obs.websocket =>
       \A message \in obs.wire \ obs'.wire :
          /\ obs.receive_task = "running"
          /\ \A i \in RequestIds :
                IF message.op = 7 /\ message.requestId = i /\ i \in obs.response_futures
                THEN /\ i \notin obs'.response_futures
                     /\ obs'.futures[i] = [state |-> "done", result |-> message]
                ELSE /\ obs'.futures[i] = obs.futures[i]
                     /\ (i \in obs'.response_futures) = (i \in obs.response_futures)

C29_RequestResponseCorrelation ==
    []C29_OwnResponse /\ [][C29_FrameResolvesItsRequest]_vars

\* the later of two concurrent requests is answered first, and a repeated
\* answer to it is waiting to be read
C29_Witness ==
    /\ obs.calls["a"].pc = "waiting"
    /\ obs.calls["a"].request_id = 1
    /\ obs.futures[1].state = "pending"
    /\ obs.calls["b"].pc = "returned"
    /\ obs.calls["b"].returned = 2
    /\ RequestResponse(2, TRUE) \in obs.wire

\* C30: a finished send_request has either returned the data of a response
\* whose status is true, or raised OBSWebSocketError (not connected, failed
\* status or timeout), within the client's timeout, also when the connection
\* closed or the receive loop ended first; after a timeout its request id is
\* not in the pending map.
C30_OutcomeOfCall ==
    \A c \in Callers :
       LET call == obs.calls[c] IN
       /\ call.waited <= TimeoutTicks
       /\ call.pc = "returned" =>
             /\ obs.futures[call.request_id].state = "done"
             /\ obs.futures[call.request_id].result.result
       /\ call.pc = "raised" =>
             /\ call.exception = "OBSWebSocketError"
             /\ call.reason \in {"not_connected", "failed", "timeout"}
             /\ call.reason = "timeout" => call.request_id \notin obs.response_futures

\* the part of C30 that holds: no send_request waits forever
C30_CallFinishes ==
    \A c \in Callers :
       obs.calls[c].pc = "waiting" ~> obs.calls[c].pc \in {"returned", "raised"}

\* C31: stop_record returns a recording path exactly when, before its wait
\* timeout expires, a RecordStateChanged event with outputActive false and a
\* non-empty outputPath has been received since the stopped flag was last
\* cleared, and then it returns the path of the latest such event; a stop
\* event without outputPath does not end the wait; on timeout it returns
\* None and raises nothing.
C31_StopEventsWithPath ==
    {i \in DOMAIN rec.received :
        ~rec.received[i].outputActive /\ rec.received[i].outputPath # NoPath}

C31_LatestPath ==
    rec.received[CHOOSE i \in C31_StopEventsWithPath :
                    \A j \in C31_StopEventsWithPath : j <= i].outputPath

C31_WaitOfStopRecord ==
    /\ (rec.call.pc = "wait_event" /\ rec'.call.pc # "wait_event") =>
          /\ rec'.call.pc # "raised"
          /\ IF C31_StopEventsWithPath # {}
             THEN rec'.call.result = C31_LatestPath
             ELSE /\ rec'.call.result = NoPath
                  /\ rec.call.waited >= WaitTimeoutTicks
    /\ (rec.call.pc = "wait_event" /\ rec'.call.waited > rec.call.waited) =>
          /\ C31_StopEventsWithPath = {}
          /\ rec'.call.waited <= WaitTimeoutTicks

C31_StopRecordResult == [][C31_WaitOfStopRecord]_vars

\* stop_record, called after a start_record on the same client, has returned
\* the path of the recording after a stop event without a path was received
C31_Witness ==
    /\ rec.call.op = "stop_record"
    /\ rec.call.pc = "returned"
    /\ rec.call.result # NoPath
    /\ rec.cleared
    /\ \E i, j \in DOMAIN rec.received :
          /\ i < j
          /\ rec.received[i] = RecordStateChanged(FALSE, NoPath)
          /\ rec.received[j] = RecordStateChanged(FALSE, rec.call.result)

\* C32: when the safety check of start_record reported an active recording,
\* StopRecord is sent before StartRecord; the stopped flag and the last
\* recording path are clear when StartRecord is sent; and after start_record
\* has returned no path of the earlier recording is visible.
C32_StopBeforeStart ==
    (Len(rec'.sent) > Len(rec.sent) /\ rec'.sent[Len(rec'.sent)] = "StartRecord") =>
       /\ ~rec'.record_stopped_event
       /\ rec'.last_recording_path = NoPath
       /\ rec.call.status_active =>
             \E i \in DOMAIN rec.sent :
                /\ rec.sent[i] = "StopRecord"
                /\ \E g \in 1..(i - 1) : rec.sent[g] = "GetRecordStatus"

C32_NoEarlierPathAfterStart ==
    (rec.call.op = "start_record" /\ rec.call.pc = "returned") =>
       /\ ~rec.record_stopped_event
       /\ rec.last_recording_path = NoPath

C32_StartRecordIsClean ==
    []C32_NoEarlierPathAfterStart /\ [][C32_StopBeforeStart]_vars

\* the part of C32 that holds
C32_SendOrder == [][C32_StopBeforeStart]_vars

\* C33: check_inactivity_and_stop_streaming sends StopStream and returns True
\* only if, at its checks, no submission was processing, a submission was
\* completed, the most recent completion was at least
\* inactivity_threshold_minutes old and OBS reported streaming; in every other
\* case without an error it returns False and has sent no StopStream; the
\* workflow sleeps the extra 60 s before continue-as-new exactly when the
\* result is True.
C33_ConditionsAtChecks ==
    /\ inact.seen.checks = 3
    /\ inact.seen.processing_count = 0
    /\ inact.seen.last_completed # NoTime
    /\ inact.seen.minutes_since_completion >= 15
    /\ inact.seen.is_streaming

C33_SomeConditionFailed ==
    \/ inact.seen.checks = 1 /\ inact.seen.processing_count > 0
    \/ inact.seen.checks = 2 /\ inact.seen.last_completed = NoTime
    \/ /\ inact.seen.checks = 2
       /\ inact.seen.last_completed # NoTime
       /\ inact.seen.minutes_since_completion < 15
    \/ inact.seen.checks = 3 /\ ~inact.seen.is_streaming

C33_ResultOfCheck ==
    inact.pc \in {"returned", "sleeping"} =>
       IF inact.result
       THEN C33_ConditionsAtChecks /\ inact.stop_stream_sent = 1
       ELSE C33_SomeConditionFailed /\ inact.stop_stream_sent = 0

\* what each check records is what the tables, the clock and OBS hold then
C33_ChecksReadTheState ==
    /\ (inact.seen.checks = 0 /\ inact'.seen.checks = 1) =>
          inact'.seen.processing_count =
             Cardinality({s \in InactSubs : inact.rows[s].status = "processing"})
    /\ (inact.seen.checks = 1 /\ inact'.seen.checks = 2) =>
          LET done == {inact.rows[s].completed_at :
                          s \in {o \in InactSubs : inact.rows[o].status = "completed"}}
          IN  IF done = {} THEN inact'.seen.last_completed = NoTime
              ELSE /\ inact'.seen.last_completed \in done
                   /\ \A t \in done : t <= inact'.seen.last_completed
                   /\ inact'.seen.minutes_since_completion =
                         inact.now - inact'.seen.last_completed
    /\ (inact.seen.checks = 2 /\ inact'.seen.checks = 3) =>
          inact'.seen.is_streaming = inact.streaming

C33_SleepsWhenStopped ==
    /\ (inact.pc = "returned" /\ inact'.pc # "returned") =>
          inact'.pc = (IF inact.result THEN "sleeping" ELSE "continue_as_new")
    /\ inact'.pc = "sleeping" => inact.pc \in {"returned", "sleeping"}

C34_EntriesOf(artwork_id) ==
    {i \in DOMAIN gallery.file.artworks : gallery.file.artworks[i].id = artwork_id}

C34_OneEntryPerInvokedId ==
    \A artwork_id \in GalleryArtworkIds :
       Cardinality(C34_EntriesOf(artwork_id)) =
          (IF \E k \in DOMAIN gallery.invoked : gallery.invoked[k] = artwork_id
           THEN 1 ELSE 0)

C34_InvocationKeepsEntries ==
    /\ (Len(gallery'.invoked) > Len(gallery.invoked)
          /\ C34_EntriesOf(gallery'.invoked[Len(gallery'.invoked)]) # {}) =>
             gallery'.file = gallery.file
    /\ Len(gallery'.file.artworks) >= Len(gallery.file.artworks)
    /\ \A i \in DOMAIN gallery.file.artworks :
          gallery'.file.artworks[i] = gallery.file.artworks[i]

C34_AppendIsIdempotent ==
    []C34_OneEntryPerInvokedId /\ [][C34_InvocationKeepsEntries]_vars

\* the same id was appended, a second id followed, and the first id was
\* passed again with another title
C34_Witness ==
    /\ Len(gallery.invoked) = 4
    /\ gallery.invoked[1] = "kidpix-1"
    /\ gallery.invoked[2] = "raised"
    /\ gallery.invoked[3] = "kidpix-2"
    /\ gallery.invoked[4] = "kidpix-1"
    /\ Len(gallery.file.artworks) = 2
    /\ gallery.file.artworks[1].title = "first"
    /\ gallery.file.lastUpdated = 3

\* C35: submission status is monotonic along pending -> processing ->
\* completed: once a submission is "completed", no operation of any workflow
\* run sets it back to "processing" or "pending", also when the child
\* CreateArtworkWorkflow is retried with the same submission id after a
\* failure in a step that follows the "completed" update.
C35_CompletedStays ==
    \A s \in SubIds : d1[s].status = "completed" => d1'[s].status = "completed"

C35_StatusMonotonic == [][C35_CompletedStays]_vars

\* C36: no submission stays "processing" forever: every submission a
\* CreateArtworkWorkflow run set to "processing" eventually reaches
\* "completed" or "failed", also when that run and all attempts of the child
\* end Failed after the claim.
C36_ProcessingEnds ==
    \A s \in SubIds :
       d1[s].status = "processing" ~> d1[s].status \in {"completed", "failed"}

\* cleanup_tab_activity was invoked in this run of CreateArtworkWorkflow
C37_CleanupInvoked(run) ==
    \E i \in DOMAIN run.trace : run.trace[i] = "cleanup_tab_activity"

\* C37: no browser tab is leaked: in every CreateArtworkWorkflow run in which
\* browser_session_activity succeeded (its tab is left open for the cleanup),
\* cleanup_tab_activity is invoked, also when the run ends Failed because a
\* later mandatory step failed permanently.
C37_CleanupInvokedAfterSuccess ==
    \A r \in ArtIds :
       art[r].browser_done /\ art[r].status = "failed" =>
           C37_CleanupInvoked(art[r])

\* C38: a progressing attempt of browser_session_activity is never declared
\* stalled: while the attempt is running, the time since its start or since
\* its last heartbeat never exceeds the 30-second heartbeat_timeout, every
\* wait of the attempt ending within its configured time.
C38_HeartbeatInTime ==
    /\ browser.pc # "none" => browser.idle <= HeartbeatTimeoutSeconds
    /\ browser.outcome # "stalled"

====
